---- MODULE Spec2Model ----
(***************************************************************************)
(* State-machine model of the dm/dmda scheduling policy of                 *)
(* src/basic-src/pi.c: the per-worker FIFOs with their horizon             *)
(* (exp_start, exp_len, exp_end), the decision engines _dm_push_task and   *)
(* _dmda_push_task, the commit push_task_on_best_worker, the pops and the  *)
(* pre/post execution hooks.                                               *)
(*                                                                         *)
(* Times and lengths are integers (microseconds); the C NAN is the value   *)
(* NaN below, with the arithmetic and comparison rules of IEEE NaN.        *)
(* The task lists are the intrusive doubly linked lists of StarPU: every   *)
(* task carries one prev and one next pointer, shared by whatever list the *)
(* task is linked in.                                                      *)
(***************************************************************************)
EXTENDS Integers, Sequences, FiniteSets, TLC

\* ------------------------------------------------------------------ bounds
NumWorkers == 2
NumTasks == 3
\* tasks submitted in the specifications that interleave every operation
NumMixed == 2
MaxTime == 1
MaxPrio == 1
MaxNonReady == 2
\* STARPU_IDLE_POWER when the environment sets it
IdlePower == 2000
STARPU_MAXIMPLEMENTATIONS == 2

\* ------------------------------------------------------- program constants
NULL == 0
NaN == -1000000
DBL_MAX == 1000000
\* the unsigned counters wrap modulo UINT_MOD; the model narrows unsigned and int
\* to 16 bits (the checker's integers are 32 bits wide), which keeps every wrap
UINT_MOD == 65536
_STARPU_SCHED_ALPHA_DEFAULT == 1
_STARPU_SCHED_BETA_DEFAULT == 1
_STARPU_SCHED_GAMMA_DEFAULT == 1000

Workers == 0 .. (NumWorkers - 1)
Tasks == 1 .. NumTasks
MixedTasks == 1 .. NumMixed
Impls == 0 .. (STARPU_MAXIMPLEMENTATIONS - 1)
\* worker w is a CPU core (arch 0, memory node 0) or a GPU (arch 1, node 1)
Archs == {0, 1}
starpu_worker_get_perf_archtype(w) == w % 2
starpu_worker_get_memory_node(w) == w % 2

\* ------------------------------------------------------- double arithmetic
isnan(x) == x = NaN
FAdd(x, y) == IF isnan(x) \/ isnan(y) THEN NaN ELSE x + y
FSub(x, y) == IF isnan(x) \/ isnan(y) THEN NaN ELSE x - y
FMul(x, y) == IF isnan(x) \/ isnan(y) THEN NaN ELSE x * y
FLt(x, y) == ~isnan(x) /\ ~isnan(y) /\ x < y
FGt(x, y) == FLt(y, x)
\* STARPU_MAX(a,b) is ((a) > (b) ? (a) : (b))
STARPU_MAX(a, b) == IF FGt(a, b) THEN a ELSE b
_STARPU_IS_ZERO(x) == x = 0

\* ---------------------------------------------------------------- state
VARIABLES
    now,          \* starpu_timing_now()
    oracle,       \* the performance models and can_execute masks
    sched_ctx,    \* priority range and child-context masters of the context
    dt,           \* struct _starpu_dmda_data without queue_array
    queue_array,  \* dt->queue_array: one struct _starpu_fifo_taskq per worker
    task,         \* struct starpu_task of every task
    held,         \* per worker: tasks handed to it (popped or notified), not yet started
    running,      \* per worker: the task between pre_exec_hook and post_exec_hook
    snap,         \* per worker: horizon recorded at the last push_task_notify
    pc,           \* where the calls that take several steps stand
    last          \* the last operation and what it returned

vars == <<now, oracle, sched_ctx, dt, queue_array, task, held, running, snap, pc, last>>

\* ------------------------------------------------ starpu_task_list (intrusive)
Link(tk, t, field, v) ==
    IF t = NULL THEN tk
    ELSE IF field = "next" THEN [tk EXCEPT ![t].next = v] ELSE [tk EXCEPT ![t].prev = v]

starpu_task_list_push_back(list, tk, t) ==
    LET tk1 == IF list.head = NULL THEN tk ELSE Link(tk, list.tail, "next", t)
        tk2 == [tk1 EXCEPT ![t].next = NULL, ![t].prev = list.tail]
    IN  [list |-> [head |-> IF list.head = NULL THEN t ELSE list.head, tail |-> t],
         tk |-> tk2]

starpu_task_list_push_front(list, tk, t) ==
    LET tk1 == IF list.tail = NULL THEN tk ELSE Link(tk, list.head, "prev", t)
        tk2 == [tk1 EXCEPT ![t].prev = NULL, ![t].next = list.head]
    IN  [list |-> [head |-> t, tail |-> IF list.tail = NULL THEN t ELSE list.tail],
         tk |-> tk2]

starpu_task_list_erase(list, tk, t) ==
    LET p == tk[t].prev
        n == tk[t].next
        tk1 == IF p # NULL THEN Link(tk, p, "next", n) ELSE tk
        hd == IF p # NULL THEN list.head ELSE n
        \* task->next is read again after the write through p (p may be the task itself)
        n2 == tk1[t].next
        tk2 == IF n2 # NULL THEN Link(tk1, n2, "prev", p) ELSE tk1
        tl == IF n2 # NULL THEN list.tail ELSE p
        tk3 == [tk2 EXCEPT ![t].prev = NULL, ![t].next = NULL]
    IN  [list |-> [head |-> hd, tail |-> tl], tk |-> tk3]

\* the tasks reached from head by following next, at most fuel of them
RECURSIVE Walk(_, _, _)
Walk(tk, t, fuel) ==
    IF t = NULL \/ fuel = 0 THEN <<>> ELSE <<t>> \o Walk(tk, tk[t].next, fuel - 1)

TaskSeq(tk, list) == Walk(tk, list.head, NumTasks + 1)
FifoSeq(w) == TaskSeq(task, queue_array[w])
Range(s) == {s[i] : i \in 1 .. Len(s)}

\* ------------------------------------------------- performance-model oracle
\* One codelet is shared by all tasks (pi_cl), so a prediction depends on the
\* architecture and the implementation only.
Orc(lenCPU, lenGPU, xferGPU, maskCPU, maskGPU) ==
    [length   |-> [a \in Archs |-> [i \in Impls |-> IF a = 0 THEN lenCPU[i] ELSE lenGPU[i]]],
     transfer |-> [a \in Archs |-> IF a = 0 THEN 0 ELSE xferGPU],
     energy   |-> [a \in Archs |-> [i \in Impls |-> IF a = 0 THEN NaN ELSE 0]],
     conv     |-> [a \in Archs |-> [i \in Impls |-> 0]],
     mask     |-> [a \in Archs |-> IF a = 0 THEN maskCPU ELSE maskGPU],
     speedup  |-> [a \in Archs |-> IF a = 0 THEN 1 ELSE 2]]

\* length of implementation 0 is l0, of every other implementation l1
Len2(l0, l1) == [i \in Impls |-> IF i = 0 THEN l0 ELSE l1]

OracleSet ==
    { Orc(Len2(2, NaN), Len2(1, NaN), 1, {0}, {0}),      \* calibrated
      Orc(Len2(NaN, NaN), Len2(NaN, NaN), 1, {0}, {0}),  \* nothing calibrated
      Orc(Len2(2, NaN), Len2(NaN, NaN), 0, {0}, {0}),    \* GPU not calibrated
      Orc(Len2(0, NaN), Len2(1, NaN), 1, {0}, {0}),      \* zero length on CPU
      Orc(Len2(1, NaN), Len2(1, NaN), NaN, {0}, {0}),    \* no transfer model
      Orc(Len2(2, 1), Len2(NaN, 1), 2, {0, 1}, {1}),     \* two implementations
      Orc(Len2(2, NaN), Len2(1, NaN), 1, {0}, {}) }      \* no GPU implementation

\* the application's tasks: priority and size category of task t
TaskPriority(t) == t % (MaxPrio + 1)
TaskSize(t) == 1 + ((t \div 2) % 2)

\* the history-based model is keyed by the size of the task (size_base)
starpu_task_expected_length(t, a, nimpl) == FMul(oracle.length[a][nimpl], TaskSize(t))
starpu_task_expected_data_transfer_time(node) == oracle.transfer[node]
starpu_task_expected_energy(a, nimpl) == oracle.energy[a][nimpl]
starpu_task_expected_conversion_time(a, nimpl) == oracle.conv[a][nimpl]
starpu_worker_get_relative_speedup(a) == oracle.speedup[a]
\* starpu_worker_can_execute_task_impl: the mask of implementations, 0 when empty
impl_mask(w) == oracle.mask[starpu_worker_get_perf_archtype(w)]

\* -------------------------------------------------------- scheduling context
Prios == 0 .. MaxPrio
CtxSet ==
    { [min_set |-> TRUE, max_set |-> TRUE, min_priority |-> 0, max_priority |-> MaxPrio,
       master |-> {}],
      [min_set |-> FALSE, max_set |-> FALSE, min_priority |-> 0, max_priority |-> 0,
       master |-> {}] }

_normalize_prio(priority, num_priorities) ==
    ((num_priorities - 1) \div (sched_ctx.max_priority - sched_ctx.min_priority))
        * (priority - sched_ctx.min_priority)

\* ------------------------------------------------------------ construction
\* _starpu_create_fifo, then the bucket arrays of dmda_add_workers
NewFifo(t0, num_priorities) ==
    [head |-> NULL, tail |-> NULL, ntasks |-> 0, nprocessed |-> 0,
     exp_start |-> t0, exp_len |-> 0, exp_end |-> t0,
     exp_len_per_priority |-> [j \in 0 .. (num_priorities - 1) |-> 0],
     ntasks_per_priority |-> [j \in 0 .. (num_priorities - 1) |-> 0]]

initialize_dmda_policy(ctx) ==
    [alpha |-> _STARPU_SCHED_ALPHA_DEFAULT,
     beta |-> _STARPU_SCHED_BETA_DEFAULT,
     _gamma |-> _STARPU_SCHED_GAMMA_DEFAULT,
     idle_power |-> 0,
     main_list |-> [head |-> NULL, tail |-> NULL],
     policy_mutex |-> "free",
     num_priorities |-> IF ctx.min_set /\ ctx.max_set
                        THEN ctx.max_priority - ctx.min_priority + 1 ELSE -1]

\* starpu_task_init: no list, default priority, no prediction
NewTask(t) ==
    [next |-> NULL, prev |-> NULL, priority |-> TaskPriority(t), predicted |-> NaN,
     predicted_transfer |-> NaN, impl |-> 0,
     sub |-> FALSE, acc |-> FALSE, moved |-> FALSE, popped |-> FALSE, stamp |-> 0]

NoSnap == [t |-> NULL, exp_len |-> 0, rel_end |-> 0]
\* no push of the task stands between its two critical sections
NoPush == [w |-> -1, prio |-> FALSE, now |-> 0]
\* no dmda_pop_every_task of the worker stands before its critical section
NoPop == [at |-> "idle", exp_start |-> 0, exp_len |-> 0]
NoNr == [t \in Tasks |-> 0]
Op(op, t, w, ret) == [op |-> op, t |-> t, w |-> w, ret |-> ret, nr |-> NoNr]
NoOp == Op("init", NULL, -1, 0)

InitWith(orcs, ctxs) ==
    /\ now = 0
    /\ oracle \in orcs
    /\ sched_ctx \in ctxs
    /\ dt = initialize_dmda_policy(sched_ctx)
    /\ queue_array = [w \in Workers |-> NewFifo(0, dt.num_priorities)]
    /\ task = [t \in Tasks |-> NewTask(t)]
    /\ held = [w \in Workers |-> {}]
    /\ running = [w \in Workers |-> NULL]
    /\ snap = [w \in Workers |-> NoSnap]
    /\ pc = [pushing |-> [t \in Tasks |-> NoPush], popping |-> [w \in Workers |-> NoPop]]
    /\ last = NoOp

Init == InitWith(OracleSet, CtxSet)

\* ------------------------------------------------------------ iteration order
\* the worker collection, in order; a worker that cannot execute the task is
\* skipped before worker_ctx is incremented
RECURSIVE EligibleFrom(_)
EligibleFrom(w) ==
    IF w >= NumWorkers THEN <<>>
    ELSE (IF impl_mask(w) = {} THEN <<>> ELSE <<w>>) \o EligibleFrom(w + 1)

RECURSIVE ImplsFrom(_, _, _)
ImplsFrom(w, wc, nimpl) ==
    IF nimpl >= STARPU_MAXIMPLEMENTATIONS THEN <<>>
    ELSE (IF nimpl \in impl_mask(w) THEN << [worker |-> w, worker_ctx |-> wc, nimpl |-> nimpl] >>
          ELSE <<>>) \o ImplsFrom(w, wc, nimpl + 1)

RECURSIVE CandsFrom(_, _)
CandsFrom(elig, k) ==
    IF k > Len(elig) THEN <<>>
    ELSE ImplsFrom(elig[k], k - 1, 0) \o CandsFrom(elig, k + 1)

\* the (worker, implementation) pairs in the order the loops visit them
Candidates == CandsFrom(EligibleFrom(0), 1)

\* a quotient n/d of doubles with d > 0, and its comparison
Quot(n, d) == [n |-> n, d |-> d]
QLt(a, b) == a.n * b.d < b.n * a.d

RefreshedStart(fifo) ==
    IF isnan(fifo.exp_start) THEN now ELSE STARPU_MAX(fifo.exp_start, now)

\* GreedyTakes with "not more loaded" in place of "less loaded"
GreedyTakesOrEqual(acc, ntasks_end, len) ==
    \/ acc.ntasks_best = -1
    \/ (~acc.calibrating /\ ~QLt(acc.ntasks_best_end, ntasks_end))
    \/ (~acc.calibrating /\ isnan(len))
    \/ (acc.calibrating /\ isnan(len) /\ ~QLt(acc.ntasks_best_end, ntasks_end))

\* GreedyTakes that compares the load only, calibrated or not
GreedyTakesLeastLoaded(acc, ntasks_end, len) ==
    \/ acc.ntasks_best = -1
    \/ QLt(ntasks_end, acc.ntasks_best_end)

GreedyTakes(acc, ntasks_end, len) ==
    \/ acc.ntasks_best = -1
    \/ (~acc.calibrating /\ QLt(ntasks_end, acc.ntasks_best_end))
    \/ (~acc.calibrating /\ isnan(len))
    \/ (acc.calibrating /\ isnan(len) /\ QLt(ntasks_end, acc.ntasks_best_end))

\* ------------------------------------------------------------- _dm_push_task
DmStart ==
    [best |-> -1, best_exp_end |-> 0, model_best |-> 0, transfer_model_best |-> 0,
     ntasks_best |-> -1, ntasks_best_end |-> Quot(0, 1), calibrating |-> FALSE,
     unknown |-> FALSE, best_impl |-> 0]

DmStep(acc, c, t) ==
    LET fifo == queue_array[c.worker]
        a == starpu_worker_get_perf_archtype(c.worker)
        exp_start == RefreshedStart(fifo)
        local_length == starpu_task_expected_length(t, a, c.nimpl)
        local_penalty ==
            starpu_task_expected_data_transfer_time(starpu_worker_get_memory_node(c.worker))
        ntasks_end == Quot(fifo.ntasks, starpu_worker_get_relative_speedup(a))
        acc1 == IF GreedyTakes(acc, ntasks_end, local_length)
                THEN [acc EXCEPT !.ntasks_best_end = ntasks_end,
                                 !.ntasks_best = c.worker,
                                 !.best_impl = c.nimpl]
                ELSE acc
        acc2 == [acc1 EXCEPT
                   !.calibrating = @ \/ isnan(local_length),
                   !.unknown = @ \/ isnan(local_length) \/ _STARPU_IS_ZERO(local_length)]
        exp_end == FAdd(FAdd(exp_start, fifo.exp_len), local_length)
    IN  IF acc2.unknown THEN acc2
        ELSE IF acc2.best = -1 \/ FLt(exp_end, acc2.best_exp_end)
             THEN [acc2 EXCEPT !.best_exp_end = exp_end, !.best = c.worker,
                               !.model_best = local_length,
                               !.transfer_model_best = local_penalty,
                               !.best_impl = c.nimpl]
             ELSE acc2

RECURSIVE DmFold(_, _, _, _)
DmFold(acc, cs, k, t) ==
    IF k > Len(cs) THEN acc ELSE DmFold(DmStep(acc, cs[k], t), cs, k + 1, t)

\* DmDecision handing the modelled predictions to the commit on the greedy path too
DmDecisionKeepsModel(t) ==
    LET r == DmFold(DmStart, Candidates, 1, t)
    IN  [best |-> IF r.unknown THEN r.ntasks_best ELSE r.best,
         impl |-> r.best_impl,
         model_best |-> r.model_best,
         transfer_model_best |-> r.transfer_model_best,
         unknown |-> r.unknown]

\* the worker, implementation and predictions _dm_push_task hands to the commit
DmDecision(t) ==
    LET r == DmFold(DmStart, Candidates, 1, t)
    IN  [best |-> IF r.unknown THEN r.ntasks_best ELSE r.best,
         impl |-> r.best_impl,
         model_best |-> IF r.unknown THEN 0 ELSE r.model_best,
         transfer_model_best |-> IF r.unknown THEN 0 ELSE r.transfer_model_best,
         unknown |-> r.unknown]

\* --------------------------------------- compute_all_performance_predictions
\* an unsigned counter read into an int
UnsignedToInt(u) == IF u >= UINT_MOD \div 2 THEN u - UINT_MOD ELSE u

RECURSIVE SumLengths(_, _, _, _)
SumLengths(s, k, a, nimpl) ==
    IF k = 0 THEN 0
    ELSE FAdd(SumLengths(s, k - 1, a, nimpl), starpu_task_expected_length(s[k], a, nimpl))

\* number of leading tasks of s whose priority is not below prio
RECURSIVE Ahead(_, _, _)
Ahead(s, k, prio) ==
    IF k > Len(s) \/ task[s[k]].priority < prio THEN k - 1 ELSE Ahead(s, k + 1, prio)

\* fifo_queues.c: expected length and number of the tasks the new task would
\* wait for if it were inserted at its priority
_starpu_fifo_get_exp_len_prev_task_list(fifo, t, w, nimpl) ==
    LET s == TaskSeq(task, fifo)
        k == Ahead(s, 1, task[t].priority)
    IN  IF k = 0 THEN [exp_len |-> 0, fifo_ntasks |-> fifo.ntasks]
        ELSE IF k < Len(s)
             THEN [exp_len |-> SumLengths(s, k, starpu_worker_get_perf_archtype(w), nimpl),
                   fifo_ntasks |-> k]
             ELSE [exp_len |-> fifo.exp_len, fifo_ntasks |-> fifo.ntasks]

\* max_exp_end starts at DBL_MIN, the least positive double: 0 on the integer scale
PredStart ==
    [calibrating |-> FALSE, max_exp_end |-> 0, best_exp_end |-> DBL_MAX,
     ntasks_best |-> -1, nimpl_best |-> 0, ntasks_best_end |-> Quot(0, 1),
     unknown |-> FALSE, m |-> <<>>]

\* what the loop body reads of the FIFO: fifo_ntasks and prev_exp_len
PrevOf(fifo, t, c, sorted_decision) ==
    IF ~sorted_decision THEN [exp_len |-> fifo.exp_len, fifo_ntasks |-> fifo.ntasks]
    ELSE IF dt.num_priorities # -1
         THEN LET task_prio == _normalize_prio(task[t].priority, dt.num_priorities)
              IN  [exp_len |-> fifo.exp_len_per_priority[task_prio],
                   fifo_ntasks |-> UnsignedToInt(fifo.ntasks_per_priority[task_prio])]
         ELSE _starpu_fifo_get_exp_len_prev_task_list(fifo, t, c.worker, c.nimpl)

PredStep(acc, c, t, sorted_decision) ==
    LET fifo == queue_array[c.worker]
        a == starpu_worker_get_perf_archtype(c.worker)
        exp_start == RefreshedStart(fifo)
        prev == PrevOf(fifo, t, c, sorted_decision)
        e0 == FAdd(exp_start, prev.exp_len)
        mx == IF FGt(e0, acc.max_exp_end) THEN e0 ELSE acc.max_exp_end
        conv == starpu_task_expected_conversion_time(a, c.nimpl)
        len0 == starpu_task_expected_length(t, a, c.nimpl)
        len == IF conv > 0 THEN FAdd(len0, conv) ELSE len0
        pen == starpu_task_expected_data_transfer_time(starpu_worker_get_memory_node(c.worker))
        energy == starpu_task_expected_energy(a, c.nimpl)
        ntasks_end == Quot(prev.fifo_ntasks, starpu_worker_get_relative_speedup(a))
        acc1 == IF GreedyTakes(acc, ntasks_end, len)
                THEN [acc EXCEPT !.ntasks_best_end = ntasks_end,
                                 !.ntasks_best = c.worker,
                                 !.nimpl_best = c.nimpl]
                ELSE acc
        acc2 == [acc1 EXCEPT
                   !.max_exp_end = mx,
                   !.calibrating = @ \/ isnan(len),
                   !.unknown = @ \/ isnan(len) \/ _STARPU_IS_ZERO(len)]
        e1 == FAdd(e0, len)
        key == <<c.worker_ctx, c.nimpl>>
    IN  IF acc2.unknown
        THEN [acc2 EXCEPT !.m = (key :> [exp_end |-> e0, len |-> len, pen |-> pen,
                                         energy |-> energy]) @@ @]
        ELSE [acc2 EXCEPT
                !.best_exp_end = IF FLt(e1, @) THEN e1 ELSE @,
                !.nimpl_best = IF FLt(e1, acc2.best_exp_end) THEN c.nimpl ELSE @,
                !.m = (key :> [exp_end |-> e1, len |-> len, pen |-> pen,
                               energy |-> IF isnan(energy) THEN 0 ELSE energy]) @@ @]

RECURSIVE PredFold(_, _, _, _, _)
PredFold(acc, cs, k, t, sd) ==
    IF k > Len(cs) THEN acc ELSE PredFold(PredStep(acc, cs[k], t, sd), cs, k + 1, t, sd)

compute_all_performance_predictions(t, sorted_decision) ==
    LET r == PredFold(PredStart, Candidates, 1, t, sorted_decision)
    IN  [m |-> r.m, max_exp_end |-> r.max_exp_end, best_exp_end |-> r.best_exp_end,
         forced_worker |-> IF r.unknown THEN r.ntasks_best ELSE -1,
         forced_impl |-> IF r.unknown THEN r.nimpl_best ELSE -1]

\* ----------------------------------------------------------- _dmda_push_task
\* Fitness without the idle power of the other workers
FitnessWithoutIdlePower(p, key) ==
    LET e == p.m[key]
    IN  FMul(1000000, FAdd(FAdd(FMul(dt.alpha, FSub(e.exp_end, p.best_exp_end)),
                                FMul(dt.beta, e.pen)),
                           FMul(dt._gamma, e.energy)))

\* Fitness without the data penalty
FitnessWithoutPenalty(p, key) ==
    LET e == p.m[key]
    IN  FMul(1000000, FAdd(FMul(dt.alpha, FSub(e.exp_end, p.best_exp_end)),
                           FMul(dt._gamma, e.energy)))

\* the fitness, scaled by 1000000 so that the idle-power term stays integral
Fitness(p, key) ==
    LET e == p.m[key]
        base == FAdd(FAdd(FMul(dt.alpha, FSub(e.exp_end, p.best_exp_end)),
                          FMul(dt.beta, e.pen)),
                     FMul(dt._gamma, e.energy))
        idle == IF FGt(e.exp_end, p.max_exp_end)
                THEN FMul(dt._gamma * dt.idle_power, FSub(e.exp_end, p.max_exp_end))
                ELSE 0
    IN  FAdd(FMul(1000000, base), idle)

FitStart == [best |-> -1, best_in_ctx |-> -1, selected_impl |-> 0, best_fitness |-> -1000000]

FitStep(acc, c, p) ==
    LET f == Fitness(p, <<c.worker_ctx, c.nimpl>>)
    IN  IF acc.best = -1 \/ FLt(f, acc.best_fitness)
        THEN [best |-> c.worker, best_in_ctx |-> c.worker_ctx, selected_impl |-> c.nimpl,
              best_fitness |-> f]
        ELSE acc

RECURSIVE FitFold(_, _, _, _)
FitFold(acc, cs, k, p) == IF k > Len(cs) THEN acc ELSE FitFold(FitStep(acc, cs[k], p), cs, k + 1, p)

\* the only element of a singleton set
The(S) == CHOOSE x \in S : TRUE

\* the loop over the fitness and the choice that follows it
DmdaSettle(p) ==
    IF p.forced_worker # -1
    THEN [best |-> p.forced_worker, best_in_ctx |-> -1, impl |-> p.forced_impl,
          model_best |-> 0, transfer_model_best |-> 0, forced |-> TRUE, m |-> p.m]
    ELSE The({ [best |-> f.best, best_in_ctx |-> f.best_in_ctx, impl |-> f.selected_impl,
                model_best |->
                    IF f.best = -1 THEN 0 ELSE p.m[<<f.best_in_ctx, f.selected_impl>>].len,
                transfer_model_best |->
                    IF f.best = -1 THEN 0 ELSE p.m[<<f.best_in_ctx, f.selected_impl>>].pen,
                forced |-> FALSE, m |-> p.m] : f \in {FitFold(FitStart, Candidates, 1, p)} })

\* the worker, implementation and predictions _dmda_push_task settles on
DmdaDecision(t, sorted_decision) ==
    The({ DmdaSettle(p) : p \in {compute_all_performance_predictions(t, sorted_decision)} })

\* ------------------------------------------------------------ FIFO operations
BucketAdd(arr, task_prio, v) ==
    [i \in DOMAIN arr |-> IF i <= task_prio THEN arr[i] + v ELSE arr[i]]
\* the same on the unsigned counters
BucketCount(arr, task_prio, v) ==
    [i \in DOMAIN arr |-> IF i <= task_prio THEN (arr[i] + v) % UINT_MOD ELSE arr[i]]

TaskPrio(tk, t) ==
    IF dt.num_priorities # -1 THEN _normalize_prio(tk[t].priority, dt.num_priorities) ELSE 0

WithList(fifo, r) == [fifo EXCEPT !.head = r.list.head, !.tail = r.list.tail]

\* fifo_queues.c: insert before the first task of lower priority
_starpu_fifo_push_sorted_task(fifo, tk, t) ==
    LET s == TaskSeq(tk, fifo)
        k == IF Len(s) = 0 THEN 0
             ELSE CHOOSE j \in 0 .. Len(s) :
                    /\ \A i \in 1 .. j : tk[s[i]].priority >= tk[t].priority
                    /\ (j < Len(s) => tk[s[j + 1]].priority < tk[t].priority)
        r == IF fifo.head = NULL \/ k = Len(s)
             THEN starpu_task_list_push_back(fifo, tk, t)
             ELSE IF k = 0
                  THEN starpu_task_list_push_front(fifo, tk, t)
                  ELSE [list |-> [head |-> fifo.head, tail |-> fifo.tail],
                        tk |-> [tk EXCEPT ![t].prev = s[k], ![t].next = s[k + 1],
                                          ![s[k]].next = t, ![s[k + 1]].prev = t]]
    IN  [fifo |-> [WithList(fifo, r) EXCEPT !.ntasks = @ + 1, !.nprocessed = @ + 1],
         tk |-> r.tk]

\* PickStep with "not more" in place of "fewer" non-ready buffers
PickStepOrEqual(acc, tk, c, nr, first_task_priority) ==
    IF acc.stop \/ tk[c].priority < first_task_priority \/ ~(nr[c] <= acc.non_ready_best)
    THEN acc
    ELSE [task |-> c, non_ready_best |-> nr[c], stop |-> nr[c] = 0]

\* the task pop_first_ready settles on: among the tasks whose priority is not
\* below the head's, the first with the fewest non-ready buffers; the scan
\* stops at the first task with none
PickStep(acc, tk, c, nr, first_task_priority) ==
    IF acc.stop \/ tk[c].priority < first_task_priority \/ ~(nr[c] < acc.non_ready_best)
    THEN acc
    ELSE [task |-> c, non_ready_best |-> nr[c], stop |-> nr[c] = 0]

RECURSIVE PickFold(_, _, _, _, _)
PickFold(acc, tk, s, k, nr) ==
    IF k > Len(s) THEN acc
    ELSE PickFold(PickStep(acc, tk, s[k], nr, tk[s[1]].priority), tk, s, k + 1, nr)

FirstReady(tk, s, nr) ==
    PickFold([task |-> s[1], non_ready_best |-> 2147483647, stop |-> FALSE], tk, s, 1, nr).task

\* _starpu_fifo_pop_first_ready_task that hands the task out and leaves it linked
PopFirstReadyKeepsTask(fifo, tk, nr) ==
    IF fifo.ntasks = 0 THEN [fifo |-> fifo, tk |-> tk, ret |-> NULL]
    ELSE LET f1 == [fifo EXCEPT !.ntasks = @ - 1]
         IN  IF fifo.head = NULL THEN [fifo |-> f1, tk |-> tk, ret |-> NULL]
             ELSE [fifo |-> f1, tk |-> tk, ret |-> FirstReady(tk, TaskSeq(tk, fifo), nr)]

_starpu_fifo_pop_first_ready_task(fifo, tk, nr) ==
    IF fifo.ntasks = 0 THEN [fifo |-> fifo, tk |-> tk, ret |-> NULL]
    ELSE LET f1 == [fifo EXCEPT !.ntasks = @ - 1]
         IN  IF fifo.head = NULL THEN [fifo |-> f1, tk |-> tk, ret |-> NULL]
             ELSE LET t == FirstReady(tk, TaskSeq(tk, fifo), nr)
                      f2 == IF dt.num_priorities # -1
                            THEN [f1 EXCEPT !.ntasks_per_priority =
                                                BucketCount(@, TaskPrio(tk, t), -1)]
                            ELSE f1
                      r == starpu_task_list_erase(fifo, tk, t)
                  IN  [fifo |-> WithList(f2, r), tk |-> r.tk, ret |-> t]

\* fifo_queues.c: the head of the list, if any
_starpu_fifo_pop_local_task(fifo, tk) ==
    IF fifo.head = NULL THEN [fifo |-> fifo, tk |-> tk, ret |-> NULL]
    ELSE LET r == starpu_task_list_erase(fifo, tk, fifo.head)
         IN  [fifo |-> [WithList(fifo, r) EXCEPT !.ntasks = (@ - 1) % UINT_MOD],
              tk |-> r.tk, ret |-> fifo.head]

\* fifo_queues.c: the whole list, chained through the tasks' own links
_starpu_fifo_pop_every_task(fifo, tk, workerid) ==
    IF fifo.ntasks = 0 \/ 0 \notin impl_mask(workerid)
    THEN [fifo |-> fifo, tk |-> tk, ret |-> <<>>]
    ELSE LET s == TaskSeq(tk, fifo)
         IN  [fifo |-> [fifo EXCEPT !.head = NULL, !.tail = NULL,
                                    !.ntasks = (@ - Len(s)) % UINT_MOD],
              tk |-> tk, ret |-> s]

\* "Take the opportunity to update start time"
UpdateStart(fifo) ==
    LET es == STARPU_MAX(now, fifo.exp_start)
    IN  [fifo EXCEPT !.exp_start = es, !.exp_end = FAdd(es, fifo.exp_len)]

\* --------------------------------------------------- push_task_on_best_worker
\* the transfer that is left once the worker has drained its queue
\* ClampTransfer that charges the whole transfer, whatever the queue holds
ClampTransferKeepsAll(predicted_transfer, exp_end) == predicted_transfer

ClampTransfer(predicted_transfer, exp_end) ==
    IF FLt(FAdd(now, predicted_transfer), exp_end) THEN 0
    ELSE FSub(FAdd(now, predicted_transfer), exp_end)

\* AddToHorizon that moves exp_end and the buckets but not exp_len
AddToHorizonKeepsLen(fifo, v, task_prio) ==
    IF isnan(v) THEN fifo
    ELSE [fifo EXCEPT !.exp_end = FAdd(@, v),
                      !.exp_len_per_priority =
                          IF dt.num_priorities # -1 THEN BucketAdd(@, task_prio, v) ELSE @]

\* adds one prediction to the horizon and to the buckets up to task_prio
AddToHorizon(fifo, v, task_prio) ==
    IF isnan(v) THEN fifo
    ELSE [fifo EXCEPT !.exp_end = FAdd(@, v), !.exp_len = FAdd(@, v),
                      !.exp_len_per_priority =
                          IF dt.num_priorities # -1 THEN BucketAdd(@, task_prio, v) ELSE @]

\* first critical section: the horizon
CommitHorizon(fifo, predicted, predicted_transfer, task_prio) ==
    LET es == RefreshedStart(fifo)
        f1 == [fifo EXCEPT !.exp_start = es, !.exp_end = FAdd(es, fifo.exp_len)]
        pt == ClampTransfer(predicted_transfer, f1.exp_end)
    IN  [fifo |-> AddToHorizon(AddToHorizon(f1, pt, task_prio), predicted, task_prio),
         predicted_transfer |-> pt]

\* CommitInsert taking the tail branch whatever prio is
CommitInsertTail(fifo, tk, t, prio) ==
    LET r == starpu_task_list_push_back(fifo, tk, t)
    IN  [fifo |-> [WithList(fifo, r) EXCEPT !.ntasks = (@ + 1) % UINT_MOD,
                                            !.nprocessed = @ + 1],
         tk |-> r.tk]

\* second critical section: the task list
CommitInsert(fifo, tk, t, prio) ==
    IF prio
    THEN LET r == _starpu_fifo_push_sorted_task(fifo, tk, t)
         IN  [fifo |-> IF dt.num_priorities # -1
                       THEN [r.fifo EXCEPT !.ntasks_per_priority =
                                               BucketCount(@, TaskPrio(tk, t), 1)]
                       ELSE r.fifo,
              tk |-> r.tk]
    ELSE LET r == starpu_task_list_push_back(fifo, tk, t)
         IN  [fifo |-> [WithList(fifo, r) EXCEPT !.ntasks = (@ + 1) % UINT_MOD,
                                                 !.nprocessed = @ + 1],
              tk |-> r.tk]

starpu_sched_ctx_worker_is_master_for_child_ctx(w) == w \in sched_ctx.master

\* push_task_on_best_worker without the test for a child context
PushIntoMasterFifo(qa, tk, t, best_workerid, predicted, predicted_transfer, prio) ==
    LET h == CommitHorizon(qa[best_workerid], predicted, predicted_transfer, TaskPrio(tk, t))
        tk1 == [tk EXCEPT ![t].predicted = predicted,
                          ![t].predicted_transfer = h.predicted_transfer]
        r == CommitInsert(h.fifo, tk1, t, prio)
    IN  [qa |-> [qa EXCEPT ![best_workerid] = r.fifo], tk |-> r.tk, ret |-> 0, moved |-> FALSE]

\* what the commit leaves: the FIFOs, the tasks, the value returned and
\* whether the task went to a child context instead
push_task_on_best_worker(qa, tk, t, best_workerid, predicted, predicted_transfer, prio) ==
    IF starpu_sched_ctx_worker_is_master_for_child_ctx(best_workerid)
    THEN [qa |-> qa, tk |-> tk, ret |-> 0, moved |-> TRUE]
    ELSE LET h == CommitHorizon(qa[best_workerid], predicted, predicted_transfer,
                                TaskPrio(tk, t))
             tk1 == [tk EXCEPT ![t].predicted = predicted,
                               ![t].predicted_transfer = h.predicted_transfer]
             r == CommitInsert(h.fifo, tk1, t, prio)
         IN  [qa |-> [qa EXCEPT ![best_workerid] = r.fifo], tk |-> r.tk, ret |-> 0,
              moved |-> FALSE]

\* ------------------------------------------------------------------- hooks
\* dmda_pre_exec_hook that leaves the predicted length in exp_len
PreExecHookKeepsLength(fifo, tk, t) ==
    LET model == tk[t].predicted
        transfer_model == tk[t].predicted_transfer
        task_prio == TaskPrio(tk, t)
        f0 == UpdateStart(fifo)
        f1 == IF ~isnan(transfer_model)
              THEN [f0 EXCEPT !.exp_len = FSub(@, transfer_model),
                              !.exp_len_per_priority =
                                  IF dt.num_priorities # -1
                                  THEN BucketAdd(@, task_prio, -transfer_model) ELSE @]
              ELSE f0
        f2 == IF ~isnan(model) THEN [f1 EXCEPT !.exp_start = FAdd(@, model)] ELSE f1
    IN  [f2 EXCEPT !.exp_end = FAdd(f2.exp_start, f2.exp_len)]

\* dmda_pre_exec_hook without the removal of the transfer time
PreExecHookKeepsTransfer(fifo, tk, t) ==
    LET model == tk[t].predicted
        f0 == UpdateStart(fifo)
        f2 == IF ~isnan(model)
              THEN [f0 EXCEPT !.exp_len = FSub(@, model),
                              !.exp_start = FAdd(@, model),
                              !.exp_len_per_priority =
                                  IF dt.num_priorities # -1
                                  THEN BucketAdd(@, TaskPrio(tk, t), -model) ELSE @]
              ELSE f0
    IN  [f2 EXCEPT !.exp_end = FAdd(f2.exp_start, f2.exp_len)]

dmda_pre_exec_hook(fifo, tk, t) ==
    LET model == tk[t].predicted
        transfer_model == tk[t].predicted_transfer
        task_prio == TaskPrio(tk, t)
        f0 == UpdateStart(fifo)
        f1 == IF ~isnan(transfer_model)
              THEN [f0 EXCEPT !.exp_len = FSub(@, transfer_model),
                              !.exp_len_per_priority =
                                  IF dt.num_priorities # -1
                                  THEN BucketAdd(@, task_prio, -transfer_model) ELSE @]
              ELSE f0
        f2 == IF ~isnan(model)
              THEN [f1 EXCEPT !.exp_len = FSub(@, model),
                              !.exp_start = FAdd(@, model),
                              !.exp_len_per_priority =
                                  IF dt.num_priorities # -1
                                  THEN BucketAdd(@, task_prio, -model) ELSE @]
              ELSE f1
    IN  [f2 EXCEPT !.exp_end = FAdd(f2.exp_start, f2.exp_len)]

\* dmda_post_exec_hook without the update of exp_end
PostExecHookKeepsEnd(fifo) == [fifo EXCEPT !.exp_start = now]

dmda_post_exec_hook(fifo) ==
    [fifo EXCEPT !.exp_start = now, !.exp_end = FAdd(now, fifo.exp_len)]

\* the FIFO and the task after dmda_push_task_notify(t, workerid, perf_workerid)
dmda_push_task_notify(fifo, tk, t, workerid, perf_workerid) ==
    LET predicted == starpu_task_expected_length(
                         t, starpu_worker_get_perf_archtype(perf_workerid), tk[t].impl)
        transfer0 == starpu_task_expected_data_transfer_time(
                         starpu_worker_get_memory_node(workerid))
        task_prio == TaskPrio(tk, t)
        es == RefreshedStart(fifo)
        f0 == [fifo EXCEPT !.exp_start = es, !.exp_end = FAdd(es, fifo.exp_len)]
        pt == IF isnan(transfer0) THEN NaN ELSE ClampTransfer(transfer0, f0.exp_end)
        f1 == AddToHorizon(f0, pt, task_prio)
        f2 == AddToHorizon(f1, predicted, task_prio)
        f3 == IF dt.num_priorities # -1
              THEN [f2 EXCEPT !.ntasks_per_priority = BucketCount(@, task_prio, 1)]
              ELSE f2
    IN  [fifo |-> [f3 EXCEPT !.ntasks = (@ + 1) % UINT_MOD],
         tk |-> [tk EXCEPT ![t].predicted_transfer = IF isnan(pt) THEN @ ELSE pt,
                           ![t].predicted = IF isnan(predicted) THEN @ ELSE predicted]]

\* ------------------------------------------------------------------ actions
Alive == last.op # "abort" /\ last.op # "hang"
RECURSIVE SumProcessed(_, _)
SumProcessed(qa, w) == IF w < 0 THEN 0 ELSE qa[w].nprocessed + SumProcessed(qa, w - 1)
TotalProcessed(qa) == SumProcessed(qa, NumWorkers - 1)

\* what an out-of-bounds read of the exp_end matrix may yield
Garbage == {0, DBL_MAX}

\* the horizon as a caller sees it at the present time
RelEnd(fifo) == FSub(FAdd(RefreshedStart(fifo), fifo.exp_len), now)

\* the failed assertion taken for an error code handed back to the caller
AbortReturnsError(op, t) ==
    /\ last' = Op(op, t, -1, 1)
    /\ UNCHANGED <<pc, now, oracle, sched_ctx, dt, queue_array, task, held, running, snap>>

\* STARPU_ASSERT(forced_best != -1 || best != -1) fails: the process stops
Abort(op, t) ==
    /\ last' = Op("abort", t, -1, 0)
    /\ UNCHANGED <<pc, now, oracle, sched_ctx, dt, queue_array, task, held, running, snap>>

\* _dmda_push_task with simulate = 0
DmdaCommit(op, t, prio, sorted_decision) ==
    \E d \in {DmdaDecision(t, sorted_decision)} :
        IF d.best = -1 THEN Abort(op, t)
        ELSE \E r \in {push_task_on_best_worker(
                            queue_array, [task EXCEPT ![t].impl = d.impl, ![t].sub = TRUE],
                            t, d.best, d.model_best, d.transfer_model_best, prio)} :
                 /\ queue_array' = r.qa
                 /\ task' = [r.tk EXCEPT ![t].acc = (r.ret = 0), ![t].moved = r.moved,
                                         ![t].stamp = TotalProcessed(r.qa)]
                 /\ snap' = [snap EXCEPT ![d.best] = NoSnap]
                 /\ last' = Op(op, t, d.best, r.ret)
                 /\ UNCHANGED <<pc, now, oracle, sched_ctx, dt, held, running>>

\* _dmda_push_task ignoring its simulate flag
DmdaSimulateCommits(op, t, prio, sorted_decision) == DmdaCommit(op, t, prio, sorted_decision)

\* _dmda_push_task with simulate = 1
DmdaSimulate(op, t, prio, sorted_decision) ==
    \E d \in {DmdaDecision(t, sorted_decision)} :
        IF d.best = -1 THEN Abort(op, t)
        ELSE /\ task' = [task EXCEPT ![t].impl = d.impl]
             /\ \E g \in Garbage :
                   last' = Op(op, t, d.best,
                              IF d.best_in_ctx = -1 THEN g
                              ELSE d.m[<<d.best_in_ctx, d.impl>>].exp_end)
             /\ UNCHANGED <<pc, now, oracle, sched_ctx, dt, queue_array, held, running, snap>>

_dmda_push_task(op, t, prio, simulate, sorted_decision) ==
    /\ Alive
    /\ ~task[t].sub
    /\ IF simulate THEN DmdaSimulate(op, t, prio, sorted_decision)
       ELSE DmdaCommit(op, t, prio, sorted_decision)

dmda_push_task(t) == _dmda_push_task("push", t, FALSE, FALSE, FALSE)
dmda_push_sorted_task(t) == _dmda_push_task("push_sorted", t, TRUE, FALSE, FALSE)
dmda_push_sorted_decision_task(t) == _dmda_push_task("push_sorted_decision", t, TRUE, FALSE, TRUE)
dmda_simulate_push_task(t) == _dmda_push_task("simulate", t, FALSE, TRUE, FALSE)
dmda_simulate_push_sorted_task(t) == _dmda_push_task("simulate_sorted", t, TRUE, TRUE, FALSE)
dmda_simulate_push_sorted_decision_task(t) ==
    _dmda_push_task("simulate_sorted_decision", t, TRUE, TRUE, TRUE)

PushOps == {"push", "push_sorted", "push_sorted_decision"}
SimulateOps == {"simulate", "simulate_sorted", "simulate_sorted_decision"}

PushTaskNotify(t, w) ==
    /\ Alive
    /\ ~task[t].sub
    /\ \E r \in {dmda_push_task_notify(queue_array[w], task, t, w, w)} :
           /\ queue_array' = [queue_array EXCEPT ![w] = r.fifo]
           /\ task' = [r.tk EXCEPT ![t].sub = TRUE]
           /\ snap' = [snap EXCEPT ![w] = [t |-> t, exp_len |-> queue_array[w].exp_len,
                                           rel_end |-> RelEnd(queue_array[w])]]
    /\ held' = [held EXCEPT ![w] = @ \cup {t}]
    /\ last' = Op("notify", t, w, 0)
    /\ UNCHANGED <<pc, now, oracle, sched_ctx, dt, running>>

\* what a pop leaves, given the FIFO operation's result
Popped(op, w, r, nr) ==
    /\ queue_array' = [queue_array EXCEPT ![w] = r.fifo]
    /\ task' = IF r.ret = NULL THEN r.tk ELSE [r.tk EXCEPT ![r.ret].popped = TRUE]
    /\ held' = IF r.ret = NULL THEN held ELSE [held EXCEPT ![w] = @ \cup {r.ret}]
    /\ snap' = [snap EXCEPT ![w] = NoSnap]
    /\ last' = [Op(op, r.ret, w, r.ret) EXCEPT !.nr = nr]
    /\ UNCHANGED <<pc, now, oracle, sched_ctx, dt, running>>

\* the non-ready buffer counts a pop may observe: one per queued task
NonReadyOf(w) ==
    LET queued == Range(FifoSeq(w))
    IN  {[t \in Tasks |-> IF t \in queued THEN f[t] ELSE 0] : f \in [queued -> 0 .. MaxNonReady]}

\* the worker driver pops when it has nothing to run
Idle(w) == held[w] = {} /\ running[w] = NULL

dmda_pop_ready_task(w) ==
    /\ Alive
    /\ Idle(w)
    /\ \E nr \in NonReadyOf(w) :
          \E r \in {_starpu_fifo_pop_first_ready_task(UpdateStart(queue_array[w]), task, nr)} :
              Popped("pop_ready", w, r, nr)

dmda_pop_task(w) ==
    /\ Alive
    /\ Idle(w)
    /\ \E r \in {_starpu_fifo_pop_local_task(UpdateStart(queue_array[w]), task)} :
          Popped("pop", w, r, NoNr)

dmda_pop_every_task(w) ==
    /\ Alive
    /\ \E r \in {_starpu_fifo_pop_every_task(UpdateStart(queue_array[w]), task, w)} :
           /\ queue_array' = [queue_array EXCEPT ![w] = r.fifo]
           /\ task' = [t \in Tasks |->
                         IF t \in Range(r.ret) THEN [r.tk[t] EXCEPT !.popped = TRUE]
                         ELSE r.tk[t]]
           /\ last' = Op("pop_every", IF r.ret = <<>> THEN NULL ELSE r.ret[1], w, Len(r.ret))
    /\ snap' = [snap EXCEPT ![w] = NoSnap]
    /\ UNCHANGED <<pc, now, oracle, sched_ctx, dt, held, running>>

PreExecHook(w, t) ==
    /\ Alive
    /\ t \in held[w]
    /\ running[w] = NULL
    /\ queue_array' = [queue_array EXCEPT ![w] = dmda_pre_exec_hook(@, task, t)]
    /\ held' = [held EXCEPT ![w] = @ \ {t}]
    /\ running' = [running EXCEPT ![w] = t]
    /\ snap' = IF snap[w].t = t THEN snap ELSE [snap EXCEPT ![w] = NoSnap]
    /\ last' = Op("pre_exec", t, w, 0)
    /\ UNCHANGED <<pc, now, oracle, sched_ctx, dt, task>>

PostExecHook(w) ==
    /\ Alive
    /\ running[w] # NULL
    /\ queue_array' = [queue_array EXCEPT ![w] = dmda_post_exec_hook(@)]
    /\ running' = [running EXCEPT ![w] = NULL]
    /\ snap' = IF snap[w].t = running[w] THEN snap ELSE [snap EXCEPT ![w] = NoSnap]
    /\ last' = Op("post_exec", running[w], w, 0)
    /\ UNCHANGED <<pc, now, oracle, sched_ctx, dt, task, held>>

Tick ==
    /\ Alive
    /\ now < MaxTime
    /\ now' = now + 1
    /\ last' = Op("tick", NULL, -1, 0)
    /\ UNCHANGED <<pc, oracle, sched_ctx, dt, queue_array, task, held, running, snap>>

\* ------------------------------------------------------------- dm_push_task
QGt(a, b) == QLt(b, a)

\* first loop of get_task_heter_ratio: the largest 1 + expected length
RECURSIVE MaxExecutionTime(_, _, _, _)
MaxExecutionTime(acc, cs, k, t) ==
    IF k > Len(cs) THEN acc
    ELSE LET local_length ==
                 FAdd(1, starpu_task_expected_length(
                             t, starpu_worker_get_perf_archtype(cs[k].worker), cs[k].nimpl))
         IN  MaxExecutionTime(IF FGt(local_length, acc) THEN local_length ELSE acc,
                              cs, k + 1, t)

\* second loop: the largest max_execution_time / local_length
RECURSIVE MaxHeterRatio(_, _, _, _, _)
MaxHeterRatio(acc, cs, k, t, max_execution_time) ==
    IF k > Len(cs) THEN acc
    ELSE LET local_length ==
                 FAdd(1, starpu_task_expected_length(
                             t, starpu_worker_get_perf_archtype(cs[k].worker), cs[k].nimpl))
             heter_ratio == Quot(max_execution_time, local_length)
         IN  MaxHeterRatio(IF ~isnan(local_length) /\ QGt(heter_ratio, acc)
                           THEN heter_ratio ELSE acc,
                           cs, k + 1, t, max_execution_time)

get_task_heter_ratio(t) ==
    MaxHeterRatio(Quot(0, 1), Candidates, 1, t, MaxExecutionTime(0, Candidates, 1, t))

\* the insertion into main_list; hang is the while loop that never advances
MainListInsert(ml, tk, t) ==
    IF ml.head = NULL
    THEN [hang |-> FALSE] @@ starpu_task_list_push_back(ml, tk, t)
    ELSE IF QGt(get_task_heter_ratio(t), get_task_heter_ratio(ml.head))
         THEN [hang |-> FALSE] @@ starpu_task_list_push_front(ml, tk, t)
         ELSE [hang |-> tk[ml.head].next # NULL, list |-> ml, tk |-> tk]

\* the dispatch of the head of main_list by _dm_push_task
DmDispatch(ml, tk, h) ==
    LET d == DmDecision(h)
    IN  IF d.best = -1 THEN [best |-> -1]
        ELSE [best |-> d.best, list |-> ml] @@
             push_task_on_best_worker(queue_array, [tk EXCEPT ![h].impl = d.impl], h, d.best,
                                      d.model_best, d.transfer_model_best, FALSE)

dm_push_task(t) ==
    /\ Alive
    /\ ~task[t].sub
    /\ dt.policy_mutex = "free"
    /\ \E ins \in {MainListInsert(dt.main_list, task, t)} :
          IF ins.hang
          THEN /\ dt' = [dt EXCEPT !.policy_mutex = "held"]
               /\ last' = Op("hang", t, -1, 0)
               /\ UNCHANGED <<queue_array, task, snap>>
          ELSE \E r \in {DmDispatch(ins.list, ins.tk, ins.list.head)} :
                  IF r.best = -1
                  THEN /\ dt' = [dt EXCEPT !.policy_mutex = "held", !.main_list = ins.list]
                       /\ last' = Op("abort", t, -1, 0)
                       /\ UNCHANGED <<queue_array, task, snap>>
                  ELSE /\ dt' = [dt EXCEPT !.main_list = ins.list]
                       /\ queue_array' = r.qa
                       /\ task' = [[r.tk EXCEPT ![ins.list.head].moved = r.moved,
                                                ![ins.list.head].stamp = TotalProcessed(r.qa)]
                                      EXCEPT ![t].sub = TRUE, ![t].acc = TRUE]
                       /\ snap' = [snap EXCEPT ![r.best] = NoSnap]
                       /\ last' = Op("dm_push", t, r.best, 0)
    /\ UNCHANGED <<pc, now, oracle, sched_ctx, held, running>>

\* ---------------------------------------------------------- dmda_add_workers
\* one round of the loop of dmda_add_workers, for a worker whose queue_array
\* entry is NULL (attached = FALSE) or already holds a FIFO
dmda_add_workers(fifo, attached) ==
    LET q == IF ~attached THEN NewFifo(now, -1) ELSE fifo
    IN  IF dt.num_priorities # -1
        THEN [q EXCEPT !.exp_len_per_priority = [j \in 0 .. (dt.num_priorities - 1) |-> 0],
                       !.ntasks_per_priority = [j \in 0 .. (dt.num_priorities - 1) |-> 0]]
        ELSE q

\* the context adds a worker it already holds
AddWorkers(w) ==
    /\ Alive
    /\ queue_array' = [queue_array EXCEPT ![w] = dmda_add_workers(@, TRUE)]
    /\ snap' = [snap EXCEPT ![w] = NoSnap]
    /\ last' = Op("add_workers", NULL, w, 0)
    /\ UNCHANGED <<pc, now, oracle, sched_ctx, dt, task, held, running>>

\* ----------------------------------------------------------- specifications
\* the operations of the dmda facade and the hooks, one at a time
Next ==
    \/ \E t \in MixedTasks : dmda_push_task(t)
    \/ \E t \in MixedTasks : dmda_push_sorted_task(t)
    \/ \E t \in MixedTasks : dmda_push_sorted_decision_task(t)
    \/ \E t \in MixedTasks, w \in Workers : PushTaskNotify(t, w)
    \/ \E w \in Workers : dmda_pop_ready_task(w)
    \/ \E w \in Workers : dmda_pop_task(w)
    \/ \E w \in Workers : dmda_pop_every_task(w)
    \/ \E w \in Workers, t \in Tasks : PreExecHook(w, t)
    \/ \E w \in Workers : PostExecHook(w)
    \/ Tick

Spec == Init /\ [][Next]_vars

\* the policy as registered: dm_push_task, dmda_pop_task, dmda_pop_every_task
\* and the two hooks
NextDM ==
    \/ \E t \in Tasks : dm_push_task(t)
    \/ \E w \in Workers : dmda_pop_task(w)
    \/ \E w \in Workers : dmda_pop_every_task(w)
    \/ \E w \in Workers, t \in Tasks : PreExecHook(w, t)
    \/ \E w \in Workers : PostExecHook(w)
    \/ Tick

SpecDM == Init /\ [][NextDM]_vars

\* pushes and their simulations from the same states
NextSim ==
    \/ \E t \in MixedTasks : dmda_push_task(t)
    \/ \E t \in MixedTasks : dmda_push_sorted_task(t)
    \/ \E t \in MixedTasks : dmda_push_sorted_decision_task(t)
    \/ \E t \in Tasks : dmda_simulate_push_task(t)
    \/ \E t \in Tasks : dmda_simulate_push_sorted_task(t)
    \/ \E t \in Tasks : dmda_simulate_push_sorted_decision_task(t)
    \/ \E w \in Workers : dmda_pop_ready_task(w)
    \/ \E w \in Workers, t \in Tasks : PreExecHook(w, t)
    \/ \E w \in Workers : PostExecHook(w)
    \/ Tick

SpecSim == Init /\ [][NextSim]_vars

\* every push into a FIFO is a sorted push
NextSorted ==
    \/ \E t \in Tasks : dmda_push_sorted_task(t)
    \/ \E t \in Tasks : dmda_push_sorted_decision_task(t)
    \/ \E w \in Workers : dmda_pop_ready_task(w)
    \/ \E w \in Workers : dmda_pop_task(w)
    \/ \E w \in Workers, t \in Tasks : PreExecHook(w, t)
    \/ \E w \in Workers : PostExecHook(w)

SortedOracles ==
    { Orc(Len2(2, NaN), Len2(1, NaN), 1, {0}, {0}),
      Orc(Len2(NaN, NaN), Len2(NaN, NaN), 1, {0}, {0}),
      Orc(Len2(2, NaN), Len2(1, NaN), 1, {0}, {}) }

SpecSorted == InitWith(SortedOracles, CtxSet) /\ [][NextSorted]_vars

\* sorted and tail pushes feeding pop_first_ready
NextPop ==
    \/ \E t \in Tasks : dmda_push_task(t)
    \/ \E t \in Tasks : dmda_push_sorted_task(t)
    \/ \E w \in Workers : dmda_pop_ready_task(w)
    \/ \E w \in Workers, t \in Tasks : PreExecHook(w, t)
    \/ \E w \in Workers : PostExecHook(w)

SpecPop == InitWith(SortedOracles, CtxSet) /\ [][NextPop]_vars

\* weak fairness of the pop of worker w, with its enabling condition written
\* out: an idle worker whose FIFO counts a task does not wait forever
KeepsPopping(w) ==
    \/ []<>(~(Idle(w) /\ queue_array[w].ntasks # 0))
    \/ []<><<dmda_pop_ready_task(w)>>_vars

\* the driver of each worker keeps popping, starting and completing tasks
SpecPopFair ==
    /\ SpecPop
    /\ \A w \in Workers :
           /\ KeepsPopping(w)
           /\ WF_vars(\E t \in Tasks : PreExecHook(w, t))
           /\ WF_vars(PostExecHook(w))

\* both decision engines on the same FIFOs
NextDecide ==
    \/ \E t \in MixedTasks : dm_push_task(t)
    \/ \E t \in MixedTasks : dmda_push_task(t)
    \/ \E t \in MixedTasks : dmda_push_sorted_task(t)
    \/ \E t \in MixedTasks : dmda_push_sorted_decision_task(t)
    \/ \E t \in Tasks, w \in Workers : PushTaskNotify(t, w)
    \/ \E w \in Workers : dmda_pop_task(w)
    \/ Tick

SpecDecide == Init /\ [][NextDecide]_vars

\* models where some (worker, implementation) pairs are calibrated and others
\* are not, in both iteration orders
MixedOracles ==
    { Orc(Len2(2, NaN), Len2(NaN, NaN), 0, {0}, {0}),        \* calibrated first
      Orc(Len2(NaN, NaN), Len2(1, NaN), 1, {0}, {0}),        \* uncalibrated first
      Orc(Len2(2, NaN), Len2(NaN, NaN), 1, {0, 1}, {0, 1}),  \* several uncalibrated pairs
      Orc(Len2(NaN, 2), Len2(1, NaN), 1, {0, 1}, {0, 1}) }

SpecGreedy == InitWith(MixedOracles, CtxSet) /\ [][NextDecide]_vars

\* models under which candidates tie: equal fitness of CPU and GPU, equal lengths
\* of two implementations, and the greedy cases without calibrated candidates
TieOracles ==
    { Orc(Len2(2, NaN), Len2(1, NaN), 1, {0}, {0}),
      Orc(Len2(1, 1), Len2(1, 1), 0, {0, 1}, {0, 1}),
      Orc(Len2(1, 1), Len2(4, 4), 0, {0, 1}, {1}),
      Orc(Len2(NaN, NaN), Len2(NaN, NaN), 1, {0, 1}, {0, 1}),
      Orc(Len2(0, NaN), Len2(1, NaN), 1, {0}, {0}) }

SpecTie == InitWith(TieOracles, CtxSet) /\ [][NextDecide]_vars

\* contexts in which a worker is the master of a child context
CtxMasters ==
    { [min_set |-> TRUE, max_set |-> TRUE, min_priority |-> 0, max_priority |-> MaxPrio,
       master |-> {1}],
      [min_set |-> FALSE, max_set |-> FALSE, min_priority |-> 0, max_priority |-> 0,
       master |-> {0}],
      [min_set |-> FALSE, max_set |-> FALSE, min_priority |-> 0, max_priority |-> 0,
       master |-> {}] }

SpecDelegate == InitWith(SortedOracles, CtxMasters) /\ [][NextDecide]_vars

\* codelets that no worker, or only the CPU worker, can execute
NoWorkerOracles ==
    { Orc(Len2(2, NaN), Len2(1, NaN), 1, {}, {}),
      Orc(Len2(NaN, NaN), Len2(NaN, NaN), 1, {}, {}),
      Orc(Len2(2, NaN), Len2(1, NaN), 1, {0}, {}) }

SpecNoWorker == InitWith(NoWorkerOracles, CtxSet) /\ [][NextDecide]_vars

\* sorted pushes and notifications, with workers added again meanwhile
NextAdd ==
    \/ \E t \in MixedTasks : dmda_push_sorted_task(t)
    \/ \E t \in MixedTasks, w \in Workers : PushTaskNotify(t, w)
    \/ \E w \in Workers : dmda_pop_task(w)
    \/ \E w \in Workers, t \in Tasks : PreExecHook(w, t)
    \/ \E w \in Workers : PostExecHook(w)
    \/ \E w \in Workers : AddWorkers(w)
    \/ Tick

SpecAdd == Init /\ [][NextAdd]_vars

\* the registered policy on a machine where only the CPU worker can execute the
\* codelet, through two implementations of different length (and the
\* calibrated CPU and GPU model)
ListOracles ==
    { Orc(Len2(2, 1), Len2(1, NaN), 1, {0, 1}, {}),
      Orc(Len2(2, NaN), Len2(1, NaN), 1, {0}, {0}) }

SpecDMList == InitWith(ListOracles, CtxSet) /\ [][NextDM]_vars

\* ------------------------------------------- calls interleaved step by step
\* push_task_on_best_worker up to its first unlock (330-378) and the stores
\* into the task that follow it (380-381); a failed assertion or a delegation
\* ends the call at once
PushHorizon(op, t, prio) ==
    /\ Alive
    /\ ~task[t].sub
    /\ \E d \in {DmdaDecision(t, FALSE)} :
          IF d.best = -1 \/ starpu_sched_ctx_worker_is_master_for_child_ctx(d.best)
          THEN DmdaCommit(op, t, prio, FALSE)
          ELSE \E h \in {CommitHorizon(queue_array[d.best], d.model_best,
                                       d.transfer_model_best, TaskPrio(task, t))} :
                   /\ queue_array' = [queue_array EXCEPT ![d.best] = h.fifo]
                   /\ task' = [task EXCEPT ![t].impl = d.impl, ![t].sub = TRUE,
                                           ![t].predicted = d.model_best,
                                           ![t].predicted_transfer = h.predicted_transfer]
                   /\ snap' = [snap EXCEPT ![d.best] = NoSnap]
                   /\ pc' = [pc EXCEPT !.pushing[t] = [w |-> d.best, prio |-> prio, now |-> now]]
                   /\ last' = Op("push_horizon", t, d.best, 0)
                   /\ UNCHANGED <<now, oracle, sched_ctx, dt, held, running>>

\* the second critical section of push_task_on_best_worker (397-427) and its return
PushInsert(t) ==
    /\ Alive
    /\ pc.pushing[t] # NoPush
    /\ \E p \in {pc.pushing[t]} :
          \E r \in {CommitInsert(queue_array[p.w], task, t, p.prio)} :
              /\ queue_array' = [queue_array EXCEPT ![p.w] = r.fifo]
              /\ task' = [r.tk EXCEPT ![t].acc = TRUE,
                                      ![t].stamp = TotalProcessed(
                                          [queue_array EXCEPT ![p.w] = r.fifo])]
              /\ snap' = [snap EXCEPT ![p.w] = NoSnap]
              /\ last' = Op(IF p.prio THEN "push_sorted" ELSE "push", t, p.w, 0)
    /\ pc' = [pc EXCEPT !.pushing[t] = NoPush]
    /\ UNCHANGED <<now, oracle, sched_ctx, dt, held, running>>

\* dmda_pop_every_task reads the clock and the horizon with no lock held
\* (293-294)
PopEveryLoad(w) ==
    /\ Alive
    /\ pc.popping[w].at = "idle"
    /\ pc' = [pc EXCEPT !.popping[w] = [at |-> "loaded",
                                        exp_start |-> STARPU_MAX(now,
                                                                 queue_array[w].exp_start),
                                        exp_len |-> queue_array[w].exp_len]]
    /\ last' = Op("pop_every_load", NULL, w, 0)
    /\ UNCHANGED <<now, oracle, sched_ctx, dt, queue_array, task, held, running, snap>>

\* and writes exp_start and exp_end from what it read, still with no lock held:
\* the value written is the one computed at the reads, or one computed from a
\* clock read again just before the write
PopEveryStore(w) ==
    /\ Alive
    /\ pc.popping[w].at = "loaded"
    /\ \E es \in {pc.popping[w].exp_start, STARPU_MAX(now, pc.popping[w].exp_start)} :
          queue_array' = [queue_array EXCEPT
                             ![w].exp_start = es,
                             ![w].exp_end = FAdd(es, pc.popping[w].exp_len)]
    /\ pc' = [pc EXCEPT !.popping[w].at = "stored"]
    /\ last' = Op("pop_every_store", NULL, w, 0)
    /\ UNCHANGED <<now, oracle, sched_ctx, dt, task, held, running, snap>>

\* the critical section of dmda_pop_every_task (299-301) and its return
PopEveryTake(w) ==
    /\ Alive
    /\ pc.popping[w].at = "stored"
    /\ \E r \in {_starpu_fifo_pop_every_task(queue_array[w], task, w)} :
           /\ queue_array' = [queue_array EXCEPT ![w] = r.fifo]
           /\ task' = [t \in Tasks |->
                         IF t \in Range(r.ret) THEN [r.tk[t] EXCEPT !.popped = TRUE]
                         ELSE r.tk[t]]
           /\ last' = Op("pop_every", IF r.ret = <<>> THEN NULL ELSE r.ret[1], w, Len(r.ret))
    /\ snap' = [snap EXCEPT ![w] = NoSnap]
    /\ pc' = [pc EXCEPT !.popping[w] = NoPop]
    /\ UNCHANGED <<now, oracle, sched_ctx, dt, held, running>>

\* pushes committing in two steps among pops and hooks
NextCommit ==
    \/ \E t \in MixedTasks : PushHorizon("push", t, FALSE)
    \/ \E t \in MixedTasks : PushHorizon("push_sorted", t, TRUE)
    \/ \E t \in Tasks : PushInsert(t)
    \/ \E w \in Workers : dmda_pop_task(w)
    \/ \E w \in Workers, t \in Tasks : PreExecHook(w, t)
    \/ \E w \in Workers : PostExecHook(w)
    \/ Tick

SpecCommit == InitWith(SortedOracles, CtxSet) /\ [][NextCommit]_vars

\* contexts with both ends of the priority range set, a single priority included
CtxRanges ==
    { [min_set |-> TRUE, max_set |-> TRUE, min_priority |-> r[1], max_priority |-> r[2],
       master |-> {}] : r \in {q \in Prios \X Prios : q[1] <= q[2]} }

\* _normalize_prio applied to a priority of the range; with max = min the
\* divisor of the integer division is 0: the division traps and stops the
\* process, or yields a quotient that is multiplied by priority - min = 0
NormalizePrio(priority) ==
    /\ Alive
    /\ dt.num_priorities # -1
    /\ priority \in sched_ctx.min_priority .. sched_ctx.max_priority
    /\ IF sched_ctx.max_priority = sched_ctx.min_priority
       THEN \/ last' = Op("abort", NULL, -1, 0)
            \/ last' = Op("normalize", NULL, -1, 0)
       ELSE last' = Op("normalize", NULL, -1, _normalize_prio(priority, dt.num_priorities))
    /\ UNCHANGED <<pc, now, oracle, sched_ctx, dt, queue_array, task, held, running, snap>>

\* the normalization among pops of empty FIFOs
NextPrio ==
    \/ \E priority \in Prios : NormalizePrio(priority)
    \/ \E w \in Workers : dmda_pop_task(w)
    \/ \E w \in Workers : PopEveryLoad(w)
    \/ \E w \in Workers : PopEveryStore(w)
    \/ \E w \in Workers : PopEveryTake(w)
    \/ Tick

SpecPrio == InitWith(SortedOracles, CtxRanges) /\ [][NextPrio]_vars

\* pushes committing in two steps while dmda_pop_every_task runs step by step
NextStale ==
    \/ \E t \in MixedTasks : PushHorizon("push", t, FALSE)
    \/ \E t \in Tasks : PushInsert(t)
    \/ \E w \in Workers : PopEveryLoad(w)
    \/ \E w \in Workers : PopEveryStore(w)
    \/ \E w \in Workers : PopEveryTake(w)
    \/ Tick

SpecStale == InitWith(SortedOracles, CtxSet) /\ [][NextStale]_vars

\* dmda_pop_every_task step by step among pushes, notifications and hooks
NextRace ==
    \/ \E t \in MixedTasks : dmda_push_task(t)
    \/ \E t \in MixedTasks, w \in Workers : PushTaskNotify(t, w)
    \/ \E w \in Workers : PopEveryLoad(w)
    \/ \E w \in Workers : PopEveryStore(w)
    \/ \E w \in Workers : PopEveryTake(w)
    \/ \E w \in Workers, t \in MixedTasks : PreExecHook(w, t)
    \/ \E w \in Workers : PostExecHook(w)
    \/ Tick

SpecRace == InitWith(SortedOracles, CtxSet) /\ [][NextRace]_vars

\* ------------------------------------- locks and oracle queries of one call
\* the mutexes: sched_mutex of worker w is w, policy_mutex comes after them
PolicyMutex == NumWorkers
Lock(m) == [e |-> "lock", m |-> m]
Unlock(m) == [e |-> "unlock", m |-> m]
Query == [e |-> "oracle", m |-> PolicyMutex]

\* DecisionEvents keeping every sched_mutex it takes until the loop is over
RECURSIVE DecisionEventsKeepLocks(_, _, _)
DecisionEventsKeepLocks(cs, k, sorted_decision) ==
    IF k > Len(cs)
    THEN IF sorted_decision /\ dt.num_priorities = -1
         THEN [j \in 1 .. Len(cs) |-> Unlock(cs[j].worker)] ELSE <<>>
    ELSE (IF sorted_decision /\ dt.num_priorities = -1
          THEN <<Lock(cs[k].worker), Query>> ELSE <<Query>>)
         \o DecisionEventsKeepLocks(cs, k + 1, sorted_decision)

\* compute_all_performance_predictions: for every candidate, sched_mutex around
\* _starpu_fifo_get_exp_len_prev_task_list when the decision is sorted and the
\* context has no priority range (653-655), then the queries of the models
RECURSIVE DecisionEvents(_, _, _)
DecisionEvents(cs, k, sorted_decision) ==
    IF k > Len(cs) THEN <<>>
    ELSE (IF sorted_decision /\ dt.num_priorities = -1
          THEN <<Lock(cs[k].worker), Unlock(cs[k].worker), Query>> ELSE <<Query>>)
         \o DecisionEvents(cs, k + 1, sorted_decision)

\* push_task_on_best_worker: nothing on a delegation, else its two critical sections
CommitEvents(w, moved) ==
    IF moved THEN <<>> ELSE <<Lock(w), Unlock(w), Lock(w), Unlock(w)>>

\* dm_push_task: policy_mutex (975), get_task_heter_ratio (977), _dm_push_task
\* and its commit (999), unlock (1001)
DmPushEvents(w, moved) ==
    <<Lock(PolicyMutex), Query, Query>> \o CommitEvents(w, moved) \o <<Unlock(PolicyMutex)>>

\* what the last call did, in program order
Events ==
    IF last.op = "dm_push" THEN DmPushEvents(last.w, task[dt.main_list.head].moved)
    ELSE IF last.op = "hang" THEN <<Lock(PolicyMutex), Query, Query>>
    ELSE IF last.op \in PushOps
    THEN DecisionEvents(Candidates, 1, last.op = "push_sorted_decision")
             \o CommitEvents(last.w, task[last.t].moved)
    ELSE IF last.op \in SimulateOps
    THEN DecisionEvents(Candidates, 1, last.op = "simulate_sorted_decision")
    ELSE IF last.op = "notify" THEN <<Query, Query, Lock(last.w), Unlock(last.w)>>
    ELSE IF last.op \in {"pop_every", "pre_exec", "post_exec"}
    THEN <<Lock(last.w), Unlock(last.w)>>
    ELSE <<>>

\* the mutexes held after the first k events of ev
RECURSIVE HeldAt(_, _)
HeldAt(ev, k) ==
    IF k = 0 THEN {}
    ELSE IF ev[k].e = "lock" THEN HeldAt(ev, k - 1) \cup {ev[k].m}
    ELSE IF ev[k].e = "unlock" THEN HeldAt(ev, k - 1) \ {ev[k].m}
    ELSE HeldAt(ev, k - 1)

\* the registered policy and the sorted decisions among pops and hooks
NextLocks ==
    \/ \E t \in MixedTasks : dm_push_task(t)
    \/ \E t \in MixedTasks : dmda_push_sorted_decision_task(t)
    \/ \E t \in MixedTasks, w \in Workers : PushTaskNotify(t, w)
    \/ \E w \in Workers : dmda_pop_task(w)
    \/ \E w \in Workers : dmda_pop_every_task(w)
    \/ \E w \in Workers, t \in Tasks : PreExecHook(w, t)
    \/ \E w \in Workers : PostExecHook(w)
    \/ Tick

SpecLocks == InitWith(SortedOracles, CtxMasters) /\ [][NextLocks]_vars

\* codelets whose implementations differ from one worker to the other, with
\* a zero-length implementation on the GPU
ImplOracles ==
    { Orc(Len2(NaN, 2), Len2(1, 0), 1, {1}, {0, 1}),
      Orc(Len2(2, 1), Len2(NaN, 1), 2, {0, 1}, {1}),
      Orc(Len2(2, NaN), Len2(NaN, 1), 1, {0}, {1}) }

SpecImpl == InitWith(ImplOracles, CtxSet) /\ [][NextDecide]_vars

\* every push, with the pops and the hooks that drain the FIFOs
NextDrain ==
    \/ \E t \in MixedTasks : dm_push_task(t)
    \/ \E t \in MixedTasks : dmda_push_task(t)
    \/ \E t \in MixedTasks : dmda_push_sorted_task(t)
    \/ \E t \in MixedTasks : dmda_push_sorted_decision_task(t)
    \/ \E t \in Tasks, w \in Workers : PushTaskNotify(t, w)
    \/ \E w \in Workers : dmda_pop_task(w)
    \/ \E w \in Workers, t \in Tasks : PreExecHook(w, t)
    \/ \E w \in Workers : PostExecHook(w)
    \/ Tick

SpecDrain == Init /\ [][NextDrain]_vars

\* models with an energy prediction, a costly transfer, several implementations
WithEnergy(o, eCPU, eGPU) ==
    [o EXCEPT !.energy = [a \in Archs |-> [i \in Impls |-> IF a = 0 THEN eCPU ELSE eGPU]]]
FitnessOracles ==
    { Orc(Len2(2, NaN), Len2(1, NaN), 1, {0}, {0}),
      Orc(Len2(2, 1), Len2(NaN, 1), 2, {0, 1}, {1}),
      WithEnergy(Orc(Len2(2, NaN), Len2(1, NaN), 0, {0}, {0}), 0, 1),
      WithEnergy(Orc(Len2(1, NaN), Len2(1, NaN), 1, {0}, {0}), 1, NaN) }

\* the policy with STARPU_IDLE_POWER unset or set in the environment (1106)
InitEnv(orcs, ctxs, idle) ==
    /\ now = 0
    /\ oracle \in orcs
    /\ sched_ctx \in ctxs
    /\ \E ip \in idle : dt = [initialize_dmda_policy(sched_ctx) EXCEPT !.idle_power = ip]
    /\ queue_array = [w \in Workers |-> NewFifo(0, dt.num_priorities)]
    /\ task = [t \in Tasks |-> NewTask(t)]
    /\ held = [w \in Workers |-> {}]
    /\ running = [w \in Workers |-> NULL]
    /\ snap = [w \in Workers |-> NoSnap]
    /\ pc = [pushing |-> [t \in Tasks |-> NoPush], popping |-> [w \in Workers |-> NoPop]]
    /\ last = NoOp

\* the DMDA pushes among pops
NextFitness ==
    \/ \E t \in Tasks : dmda_push_task(t)
    \/ \E t \in Tasks : dmda_push_sorted_task(t)
    \/ \E t \in Tasks : dmda_push_sorted_decision_task(t)
    \/ \E w \in Workers : dmda_pop_task(w)
    \/ Tick

SpecFitness == InitEnv(FitnessOracles, CtxSet, {0, IdlePower}) /\ [][NextFitness]_vars

\* scenario S1: a CPU (speedup 1) where the task takes 100, a GPU (speedup 10)
\* where it takes 20 after a transfer of 5
ScenarioS1 ==
    [Orc(Len2(100, NaN), Len2(20, NaN), 5, {0}, {0})
        EXCEPT !.speedup = [a \in Archs |-> IF a = 0 THEN 1 ELSE 10]]

\* the policy of the scenario: STARPU_SCHED_GAMMA set to 0 in the environment (1105)
InitS1 ==
    /\ now = 0
    /\ oracle = ScenarioS1
    /\ sched_ctx \in CtxSet
    /\ dt = [initialize_dmda_policy(sched_ctx) EXCEPT !._gamma = 0]
    /\ queue_array = [w \in Workers |-> NewFifo(0, dt.num_priorities)]
    /\ task = [t \in Tasks |-> NewTask(t)]
    /\ held = [w \in Workers |-> {}]
    /\ running = [w \in Workers |-> NULL]
    /\ snap = [w \in Workers |-> NoSnap]
    /\ pc = [pushing |-> [t \in Tasks |-> NoPush], popping |-> [w \in Workers |-> NoPop]]
    /\ last = NoOp

SpecS1 == InitS1 /\ [][NextFitness]_vars

\* ------------------------------------------------------------------- claims
\* how many times task t is linked in the FIFOs of workers 0 .. w
RECURSIVE Occurrences(_, _)
Occurrences(t, w) ==
    IF w < 0 THEN 0
    ELSE Cardinality({i \in 1 .. Len(FifoSeq(w)) : FifoSeq(w)[i] = t}) + Occurrences(t, w - 1)

\* C1: under the registered DM policy, a task whose dm_push_task returned 0 and
\* that no pop has returned yet is linked in exactly one worker FIFO, once
C1_ExactlyOneFifo ==
    \A t \in Tasks :
        (task[t].acc /\ ~task[t].popped /\ ~task[t].moved)
            => Occurrences(t, NumWorkers - 1) = 1

\* C2: after every operation, exp_end = exp_start + exp_len in every FIFO
\* (the doubles are modelled without rounding)
C2_HorizonConsistent ==
    \A w \in Workers :
        queue_array[w].exp_end = FAdd(queue_array[w].exp_start, queue_array[w].exp_len)

\* a post_exec_hook at a later time on a FIFO that still has work queued
C2_Witness ==
    /\ last.op = "post_exec"
    /\ now > 0
    /\ queue_array[last.w].exp_len > 0
    /\ queue_array[last.w].exp_start = now

\* C3: after every operation, ntasks is the number of tasks linked in the FIFO
C3_NtasksIsLength ==
    \A w \in Workers : queue_array[w].ntasks = Len(FifoSeq(w))

\* the queued tasks of worker w whose normalized priority is at least p
QueuedAtLeast(w, p) ==
    {i \in 1 .. Len(FifoSeq(w)) :
        _normalize_prio(task[FifoSeq(w)[i]].priority, dt.num_priorities) >= p}

\* C4: with a finite priority range, ntasks_per_priority[p] is the number of
\* queued tasks whose normalized priority is at least p
C4_BucketsCountQueued ==
    dt.num_priorities # -1 =>
        \A w \in Workers : \A p \in 0 .. (dt.num_priorities - 1) :
            queue_array[w].ntasks_per_priority[p] = Cardinality(QueuedAtLeast(w, p))

\* C5: pop_first_ready on a non-empty FIFO returns, among the tasks whose
\* priority is not below the head's, the earliest one with the fewest non-ready
\* buffers; a task of lower priority than the head is never returned
C5_PopFirstReady ==
    [][(last'.op = "pop_ready" /\ last'.ret # NULL) =>
          LET s == FifoSeq(last'.w)
              considered == {i \in 1 .. Len(s) : task[s[i]].priority >= task[s[1]].priority}
          IN  \E i \in considered :
                  /\ s[i] = last'.ret
                  /\ \A j \in considered :
                        /\ last'.nr[s[j]] >= last'.nr[s[i]]
                        /\ (j < i => last'.nr[s[j]] > last'.nr[s[i]])]_vars

\* a pop that passed over the head: the task returned has fewer non-ready
\* buffers than the task it left at the head
C5_Witness ==
    /\ last.op = "pop_ready"
    /\ last.ret # NULL
    /\ queue_array[last.w].head # NULL
    /\ task[last.ret].stamp > task[queue_array[last.w].head].stamp
    /\ last.nr[last.ret] > 0
    /\ last.nr[queue_array[last.w].head] > last.nr[last.ret]

\* C6: when every push is a sorted push, the priorities read from head to tail
\* never increase and tasks of equal priority are in insertion order
C6_SortedStable ==
    \A w \in Workers :
        \A i, j \in 1 .. Len(FifoSeq(w)) :
            i < j =>
                \/ task[FifoSeq(w)[i]].priority > task[FifoSeq(w)[j]].priority
                \/ /\ task[FifoSeq(w)[i]].priority = task[FifoSeq(w)[j]].priority
                   /\ task[FifoSeq(w)[i]].stamp < task[FifoSeq(w)[j]].stamp

\* a FIFO where a task pushed later sits ahead of a task of lower priority and
\* behind a task of its own priority
C6_Witness ==
    \E w \in Workers :
        \E i, j, k \in 1 .. Len(FifoSeq(w)) :
            /\ i < j /\ j < k
            /\ task[FifoSeq(w)[i]].priority = task[FifoSeq(w)[j]].priority
            /\ task[FifoSeq(w)[j]].priority > task[FifoSeq(w)[k]].priority
            /\ task[FifoSeq(w)[j]].stamp > task[FifoSeq(w)[k]].stamp

\* the flags of the entry point that op names
PrioOf(op) == op \in {"push_sorted", "push_sorted_decision", "simulate_sorted",
                      "simulate_sorted_decision"}
SortedDecisionOf(op) == op \in {"push_sorted_decision", "simulate_sorted_decision"}

\* exp_end of the chosen FIFO after the push that the simulation op stands for
RealPushEnd(t, op) ==
    LET d == DmdaDecision(t, SortedDecisionOf(op))
    IN  push_task_on_best_worker(queue_array, task, t, d.best, d.model_best,
                                 d.transfer_model_best, PrioOf(op)).qa[d.best].exp_end

\* C7: the value a simulated push returns is the exp_end the chosen worker's
\* FIFO holds after the real push from the same state (stated for the decisions
\* taken from the predictions; on the greedy fallback the value returned is
\* read outside the exp_end matrix)
C7_SimulateIsRealPush ==
    (last.op \in SimulateOps /\ ~DmdaDecision(last.t, SortedDecisionOf(last.op)).forced)
        => last.ret = RealPushEnd(last.t, last.op)

\* C8: a simulated push changes no FIFO: horizon, counters, buckets and task
\* sequence of every worker are what they were
C8_SimulateChangesNoFifo ==
    [][last'.op \in SimulateOps =>
          /\ queue_array' = queue_array
          /\ \A w \in Workers : TaskSeq(task', queue_array'[w]) = FifoSeq(w)]_vars

\* a simulation on the greedy fallback with a task queued
C8_Witness ==
    /\ last.op = "simulate_sorted_decision"
    /\ isnan(oracle.length[0][0])
    /\ \E w \in Workers : Len(FifoSeq(w)) > 0

\* C9: push_task_notify(t, w), pre_exec_hook(t), post_exec_hook(t) with no other
\* operation on the FIFO of w leave exp_len, and exp_end relative to the
\* present time, at their values before the notify
C9_NotifyRoundTrip ==
    \A w \in Workers :
        (last.op = "post_exec" /\ last.w = w /\ snap[w].t = last.t)
            => /\ queue_array[w].exp_len = snap[w].exp_len
               /\ RelEnd(queue_array[w]) = snap[w].rel_end

\* the round trip, ended at a later time, of a task whose length and transfer
\* were charged to the horizon
C9_Witness ==
    /\ last.op = "post_exec"
    /\ snap[last.w].t = last.t
    /\ FGt(task[last.t].predicted_transfer, 0)
    /\ FGt(task[last.t].predicted, 0)
    /\ now > 0

\* every eligible (worker, implementation) pair has no predicted length
AllNaN ==
    \A k \in 1 .. Len(Candidates) :
        isnan(oracle.length[starpu_worker_get_perf_archtype(Candidates[k].worker)]
                           [Candidates[k].nimpl])

DecideOps == PushOps \cup {"dm_push"}
\* the task the decision is taken for: dm_push_task dispatches the head of main_list
Decided == IF last'.op = "dm_push" THEN dt'.main_list.head ELSE last'.t

\* the first worker in iteration order whose score is the least
FirstLeast(score(_)) ==
    {w \in Range(EligibleFrom(0)) :
        \A v \in Range(EligibleFrom(0)) :
            /\ ~QLt(score(v), score(w))
            /\ (v < w => QLt(score(w), score(v)))}

NtasksScore(w) ==
    Quot(queue_array[w].ntasks,
         starpu_worker_get_relative_speedup(starpu_worker_get_perf_archtype(w)))

\* the number of tasks a sorted decision counts in the FIFO of w for task t:
\* the bucket of t's priority read into an int, or without buckets the count
\* that _starpu_fifo_get_exp_len_prev_task_list reports
SortedCount(w, t) ==
    IF dt.num_priorities # -1
    THEN UnsignedToInt(queue_array[w].ntasks_per_priority[
                           _normalize_prio(task[t].priority, dt.num_priorities)])
    ELSE _starpu_fifo_get_exp_len_prev_task_list(queue_array[w], t, w, 0).fifo_ntasks

SortedScore(w) ==
    Quot(IF last'.op = "push_sorted_decision" THEN SortedCount(w, Decided)
         ELSE queue_array[w].ntasks,
         starpu_worker_get_relative_speedup(starpu_worker_get_perf_archtype(w)))

\* C10 as amended: when no eligible pair has a predicted length, the worker chosen
\* is the first that minimizes count / relative_speedup, where count is ntasks
\* for DM and for DMDA without sorted decision, and for a sorted decision the
\* number of queued tasks the new task would wait for
C10_GreedyFirstLeast ==
    [][(last'.op \in DecideOps /\ AllNaN) => last'.w \in FirstLeast(SortedScore)]_vars

\* C10 as stated: the count is ntasks for every decision
C10_GreedyLeastNtasks ==
    [][(last'.op \in DecideOps /\ AllNaN) => last'.w \in FirstLeast(NtasksScore)]_vars

\* a greedy decision that passes over worker 0 because it is loaded
C10_Witness ==
    /\ last.op \in DecideOps
    /\ AllNaN
    /\ last.w # 0
    /\ queue_array[0].ntasks > 0

\* the candidates' predicted lengths: some are NaN, some are not
IsNaNCand(k) ==
    isnan(oracle.length[starpu_worker_get_perf_archtype(Candidates[k].worker)]
                       [Candidates[k].nimpl])
MixedNaN ==
    /\ \E k \in 1 .. Len(Candidates) : IsNaNCand(k)
    /\ \E k \in 1 .. Len(Candidates) : ~IsNaNCand(k)
\* the workers that have an implementation without a predicted length
NaNWorkers == {Candidates[k].worker : k \in {j \in 1 .. Len(Candidates) : IsNaNCand(j)}}

\* the first worker of S, in iteration order, whose score is the least in S
FirstLeastIn(S, score(_)) ==
    {w \in S : \A v \in S : /\ ~QLt(score(v), score(w))
                             /\ (v < w => QLt(score(w), score(v)))}
\* the workers whose score no eligible worker undercuts
LeastOfAll(score(_)) ==
    {w \in Range(EligibleFrom(0)) : \A v \in Range(EligibleFrom(0)) : ~QLt(score(v), score(w))}

\* C11 as amended: when some candidates have a predicted length and others have
\* none, the forced worker is the first that minimizes count / relative_speedup
\* among the workers that have an uncalibrated implementation; the calibrated
\* ones do not compete, whatever their load (count as in C10)
C11_GreedyAmongUncalibrated ==
    [][(last'.op \in DecideOps /\ MixedNaN)
          => last'.w \in FirstLeastIn(NaNWorkers, SortedScore)]_vars

\* C11 as stated: the forced worker minimizes ntasks / relative_speedup over all
\* eligible workers
C11_GreedyLeastOfAll ==
    [][(last'.op \in DecideOps /\ MixedNaN) => last'.w \in LeastOfAll(NtasksScore)]_vars

\* a forced choice between two workers that both have an uncalibrated
\* implementation, settled by their load
C11_Witness ==
    /\ last.op \in DecideOps
    /\ MixedNaN
    /\ NaNWorkers = Workers
    /\ last.w # 0
    /\ queue_array[0].ntasks > 0

\* the decision of the step: its branch, and the candidate it settles on
IsDm == last'.op = "dm_push"
IsSortedDecision == last'.op = "push_sorted_decision"
TookGreedy ==
    IF IsDm THEN DmDecision(Decided).unknown
    ELSE DmdaDecision(Decided, IsSortedDecision).forced
ChosenCands ==
    {k \in 1 .. Len(Candidates) :
        Candidates[k].worker = last'.w /\ Candidates[k].nimpl = task'[Decided].impl}

\* exp_end of candidate k as _dm_push_task computes it
DmEnd(k) ==
    FAdd(FAdd(RefreshedStart(queue_array[Candidates[k].worker]),
              queue_array[Candidates[k].worker].exp_len),
         starpu_task_expected_length(
             Decided, starpu_worker_get_perf_archtype(Candidates[k].worker),
             Candidates[k].nimpl))
FitnessOf(k) ==
    Fitness(compute_all_performance_predictions(Decided, IsSortedDecision),
            <<Candidates[k].worker_ctx, Candidates[k].nimpl>>)
\* candidate j scores better than candidate k in the branch the decision took
Better(j, k) ==
    IF TookGreedy THEN QLt(SortedScore(Candidates[j].worker), SortedScore(Candidates[k].worker))
    ELSE IF IsDm THEN FLt(DmEnd(j), DmEnd(k))
    ELSE FLt(FitnessOf(j), FitnessOf(k))
Tied(j, k) == ~Better(j, k) /\ ~Better(k, j)

\* C12: the candidate chosen (worker and implementation) is the first, in
\* worker order then implementation order, of the candidates whose score equals
\* its own: exp_end in DM, fitness in DMDA, count / relative_speedup in the
\* greedy branch
C12_FirstOfTied ==
    [][last'.op \in DecideOps =>
          \E k \in ChosenCands :
              \A j \in 1 .. Len(Candidates) : Tied(j, k) => k <= j]_vars

\* what a commit step is given: the operations that charge a task to a FIFO,
\* the task charged, and the predictions handed to the commit
CommitOps == DecideOps \cup {"notify"}
Charged == IF last'.op = "notify" THEN last'.t ELSE Decided
GivenTransfer ==
    IF last'.op = "notify"
    THEN starpu_task_expected_data_transfer_time(starpu_worker_get_memory_node(last'.w))
    ELSE IF IsDm THEN DmDecision(Decided).transfer_model_best
    ELSE DmdaDecision(Decided, IsSortedDecision).transfer_model_best
GivenLength ==
    IF last'.op = "notify"
    THEN starpu_task_expected_length(Charged, starpu_worker_get_perf_archtype(last'.w),
                                     task[Charged].impl)
    ELSE IF IsDm THEN DmDecision(Decided).model_best
    ELSE DmdaDecision(Decided, IsSortedDecision).model_best
\* exp_end of the chosen FIFO once exp_start is refreshed
RefreshedEnd == FAdd(RefreshedStart(queue_array[last'.w]), queue_array[last'.w].exp_len)
Growth == queue_array'[last'.w].exp_len - queue_array[last'.w].exp_len
Recorded == task'[Charged].predicted_transfer
OrZero(x) == IF isnan(x) THEN 0 ELSE x

\* C13 as amended: at commit, a predicted transfer that ends strictly before the
\* refreshed exp_end is recorded as 0 and exp_len grows by the predicted
\* length; otherwise the residual (now + predicted_transfer) - exp_end, never
\* negative, is recorded and exp_len grows by it plus the predicted length;
\* a NaN transfer is recorded as NaN and adds nothing, a NaN length adds nothing
C13_ClampedTransfer ==
    [][last'.op \in CommitOps =>
          IF isnan(GivenTransfer)
          THEN isnan(Recorded) /\ Growth = OrZero(GivenLength)
          ELSE IF now + GivenTransfer < RefreshedEnd
               THEN Recorded = 0 /\ Growth = OrZero(GivenLength)
               ELSE /\ Recorded = now + GivenTransfer - RefreshedEnd
                    /\ Recorded >= 0
                    /\ Growth = Recorded + OrZero(GivenLength)]_vars

\* C13 as stated: the residual and the predicted length are added whatever they are
C13_ClampedTransferAlways ==
    [][last'.op \in CommitOps =>
          IF FLt(FAdd(now, GivenTransfer), RefreshedEnd)
          THEN Recorded = 0 /\ Growth = GivenLength
          ELSE /\ Recorded = FSub(FAdd(now, GivenTransfer), RefreshedEnd)
               /\ ~FLt(Recorded, 0)
               /\ Growth = FAdd(Recorded, GivenLength)]_vars

\* a push at a later time, onto a FIFO whose exp_start had to be refreshed, of a
\* task whose transfer does not end before the work queued: the residual is
\* recorded
C13_Witness ==
    /\ last.op \in PushOps
    /\ now > 0
    /\ queue_array[last.w].exp_start = now
    /\ FGt(task[last.t].predicted_transfer, 0)
    /\ FGt(task[last.t].predicted, 0)

\* the task the last push dispatched
Dispatched == IF last.op = "dm_push" THEN dt.main_list.head ELSE last.t

\* C14 as amended: push returns 0 when the task is committed to the chosen
\* worker (its FIFO counts one more task), and 0 as well when that worker is the
\* master of a child context: the task is then handed to the child context and
\* no FIFO changes
C14_PushReturnsZero ==
    [][last'.op \in DecideOps =>
          /\ last'.ret = 0
          /\ IF starpu_sched_ctx_worker_is_master_for_child_ctx(last'.w)
             THEN /\ task'[Decided].moved
                  /\ queue_array' = queue_array
                  /\ \A w \in Workers : TaskSeq(task', queue_array'[w]) = FifoSeq(w)
             ELSE /\ ~task'[Decided].moved
                  /\ queue_array'[last'.w].ntasks =
                         (queue_array[last'.w].ntasks + 1) % UINT_MOD]_vars

\* C14 as stated: the value returned is 0 exactly when the task was committed,
\* and not 0 when it was delegated
C14_ReturnTellsDelegation ==
    last.op \in DecideOps => (last.ret = 0 <=> ~task[Dispatched].moved)

\* a push that delegated its task while another task is queued
C14_Witness ==
    /\ last.op \in DecideOps
    /\ task[Dispatched].moved
    /\ \E w \in Workers : Len(FifoSeq(w)) > 0

\* a push was attempted in this step
PushAttempted == last'.op \in DecideOps \cup {"abort"}

C16_ExpLenNeverNegative ==
    \A w \in Workers : ~FLt(queue_array[w].exp_len, 0)

\* C17: add_workers for a worker that already has a FIFO leaves that FIFO as it
\* was: sequence, ntasks, exp_start, exp_len, exp_end and the two bucket arrays
C17_AddWorkersIdempotent ==
    [][last'.op = "add_workers" =>
          /\ queue_array'[last'.w] = queue_array[last'.w]
          /\ TaskSeq(task', queue_array'[last'.w]) = FifoSeq(last'.w)]_vars

\* C18: every call of dm_push_task returns and leaves policy_mutex free (a call
\* that never returns is the step "hang", which keeps the mutex)
C18_DmPushReturns ==
    last.op # "hang" /\ dt.policy_mutex = "free"

\* the tasks whose push has added their predicted length to the horizon of
\* worker w's FIFO and has not inserted them yet
Pending(w) == {t \in Tasks : pc.pushing[t].w = w /\ FGt(task[t].predicted, 0)}

\* C19: the commit of a push is atomic for the other operations on its FIFO: while
\* the horizon accounts for a task that is not yet in the sequence, the only
\* step taken on that FIFO is the insertion of that task
C19_CommitAtomic ==
    [][\A w \in Workers :
           (Pending(w) # {} /\ last'.w = w)
               => (last'.t \in Pending(w) /\ last'.op \in {"push", "push_sorted"})]_vars


\* C20: the horizon of every FIFO is consistent whenever its mutex is free (every
\* state of the model: a critical section is one step), whatever operations
\* interleave on the FIFO: no write of exp_start, exp_len or exp_end is lost
C20_HorizonLinearizable ==
    \A w \in Workers :
        queue_array[w].exp_end = FAdd(queue_array[w].exp_start, queue_array[w].exp_len)

\* C21: lock order: a call never takes a mutex while it holds the sched_mutex
\* of a worker, so it never holds two of them and never takes policy_mutex
\* after one of them
C21_LockOrder ==
    \A k \in 1 .. Len(Events) :
        Events[k].e = "lock" =>
            /\ HeldAt(Events, k - 1) \cap Workers = {}
            /\ Events[k].m \notin HeldAt(Events, k - 1)

\* a call that takes the sched_mutex of a worker while it holds policy_mutex
C21_Witness ==
    \E k \in 1 .. Len(Events) :
        /\ Events[k].e = "lock"
        /\ Events[k].m \in Workers
        /\ PolicyMutex \in HeldAt(Events, k - 1)

\* C22: no query of the performance models is made while policy_mutex is held
C22_NoQueryUnderPolicyMutex ==
    \A k \in 1 .. Len(Events) :
        Events[k].e = "oracle" => PolicyMutex \notin HeldAt(Events, k - 1)

\* C23: the implementation recorded in the task by a push decision is one the
\* chosen worker can execute
C23_ImplOfChosenWorker ==
    last.op \in DecideOps => task[Dispatched].impl \in impl_mask(last.w)

\* the predicted length of candidate k for the task the decision is taken for
CandLength(k) ==
    starpu_task_expected_length(
        Decided, starpu_worker_get_perf_archtype(Candidates[k].worker), Candidates[k].nimpl)
\* some eligible (worker, implementation) pair has no prediction or a zero one
SomeUnknown ==
    \E k \in 1 .. Len(Candidates) : isnan(CandLength(k)) \/ _STARPU_IS_ZERO(CandLength(k))

AllValid ==
    /\ ~SomeUnknown
    /\ \A k \in 1 .. Len(Candidates) :
           ~isnan(starpu_task_expected_data_transfer_time(
                      starpu_worker_get_memory_node(Candidates[k].worker)))

\* the horizon of candidate k's worker as the decision reads it, and the end
\* of the task on it
HorizonOf(k) ==
    FAdd(RefreshedStart(queue_array[Candidates[k].worker]),
         PrevOf(queue_array[Candidates[k].worker], Decided, Candidates[k],
                IsSortedDecision).exp_len)
EndOf(k) == FAdd(HorizonOf(k), CandLength(k))
\* the least end over the candidates, the greatest horizon over their workers
LeastEnd ==
    CHOOSE e \in {EndOf(k) : k \in 1 .. Len(Candidates)} :
        \A k \in 1 .. Len(Candidates) : e <= EndOf(k)
GreatestHorizon ==
    CHOOSE h \in {HorizonOf(k) : k \in 1 .. Len(Candidates)} :
        \A k \in 1 .. Len(Candidates) : h >= HorizonOf(k)
EnergyOf(k) ==
    OrZero(starpu_task_expected_energy(
               starpu_worker_get_perf_archtype(Candidates[k].worker), Candidates[k].nimpl))
\* alpha*(exp_end - best_exp_end) + beta*data_penalty + gamma*energy, plus
\* gamma*idle_power*(exp_end - max_exp_end)/1e6 beyond max_exp_end; times 1e6
StatedFitness(k, best_exp_end, max_exp_end) ==
    1000000 * (dt.alpha * (EndOf(k) - best_exp_end)
               + dt.beta * starpu_task_expected_data_transfer_time(
                               starpu_worker_get_memory_node(Candidates[k].worker))
               + dt._gamma * EnergyOf(k))
    + (IF EndOf(k) > max_exp_end
       THEN dt._gamma * dt.idle_power * (EndOf(k) - max_exp_end) ELSE 0)

C26_DmFirstLeastEnd ==
    [][(last'.op = "dm_push" /\ ~SomeUnknown) =>
          \E k \in ChosenCands :
              /\ \A j \in 1 .. Len(Candidates) :
                     /\ ~FLt(DmEnd(j), DmEnd(k))
                     /\ (j < k => FLt(DmEnd(k), DmEnd(j)))
              /\ task'[Decided].predicted = CandLength(k)]_vars

\* the task a hook ran for has both predictions recorded
BothPredicted == ~isnan(task[last'.t].predicted) /\ ~isnan(task[last'.t].predicted_transfer)

\* C27 as amended: pre_exec_hook(t) on worker w, with both predictions recorded,
\* decreases exp_len by the recorded transfer plus the recorded length, sets
\* exp_start to max(exp_start, now) plus the recorded length, and leaves ntasks
\* and the task sequence unchanged
C27_PreExecRemovesBoth ==
    [][(last'.op = "pre_exec" /\ BothPredicted) =>
          /\ queue_array'[last'.w].exp_len =
                 queue_array[last'.w].exp_len - task[last'.t].predicted_transfer
                     - task[last'.t].predicted
          /\ queue_array'[last'.w].exp_start =
                 STARPU_MAX(now, queue_array[last'.w].exp_start) + task[last'.t].predicted
          /\ queue_array'[last'.w].ntasks = queue_array[last'.w].ntasks
          /\ TaskSeq(task', queue_array'[last'.w]) = FifoSeq(last'.w)]_vars

\* C27 as stated: exp_len decreases by exactly the recorded transfer
C27_PreExecRemovesTransferOnly ==
    [][(last'.op = "pre_exec" /\ BothPredicted) =>
          queue_array'[last'.w].exp_len =
              queue_array[last'.w].exp_len - task[last'.t].predicted_transfer]_vars

\* a task with a transfer and a length recorded has started on a worker whose
\* FIFO still holds another task
C27_Witness ==
    /\ last.op = "pre_exec"
    /\ task[last.t].predicted > 0
    /\ task[last.t].predicted_transfer > 0
    /\ queue_array[last.w].ntasks > 0

\* C29: when the chosen worker is master of a child context, push inserts
\* nothing and leaves every FIFO of the context as it was (sequence, ntasks,
\* nprocessed, horizon, priority buckets), and the task is forwarded to the
\* child context exactly once: it had not been forwarded before this push
C29_DelegationForwardsOnce ==
    [][(last'.op \in DecideOps /\ starpu_sched_ctx_worker_is_master_for_child_ctx(last'.w)) =>
          /\ queue_array' = queue_array
          /\ \A w \in Workers : TaskSeq(task', queue_array'[w]) = FifoSeq(w)
          /\ task'[Decided].moved
          /\ ~task[Decided].moved]_vars

\* the part of C29 about the FIFOs
C29_DelegationKeepsFifos ==
    [][(last'.op \in DecideOps /\ starpu_sched_ctx_worker_is_master_for_child_ctx(last'.w)) =>
          /\ queue_array' = queue_array
          /\ \A w \in Workers : TaskSeq(task', queue_array'[w]) = FifoSeq(w)
          /\ task'[Decided].moved]_vars

\* the operations that return after touching the FIFO of last'.w
TouchOps == CommitOps \cup {"pop", "pop_ready", "pop_every", "pre_exec", "post_exec"}
\* the clock the returning operation read: a push that commits in two steps
\* read it in its first critical section
ClockRead ==
    IF last'.op \in PushOps /\ pc.pushing[last'.t] # NoPush THEN pc.pushing[last'.t].now
    ELSE now
\* the operation ran in one step, or is a push returning from its second step
ReturnsWithClock == last'.op = "pop_every" => pc.popping[last'.w].at = "idle"

\* C30: at the return of every operation that touches a FIFO (push commit,
\* notify, pop, pop_ready, pop_every, pre_exec_hook, post_exec_hook), the
\* FIFO's exp_start is not before the current time that operation read
C30_StartNotBeforeClock ==
    [][(/\ last'.op \in TouchOps
        /\ last'.w \in Workers
        /\ ~(last'.op \in DecideOps /\ task'[Decided].moved)
        /\ ReturnsWithClock) =>
          ~FLt(queue_array'[last'.w].exp_start, ClockRead)]_vars

\* what a task carries of the horizon of its FIFO: its recorded length and
\* transfer, an unset one counting for nothing
ShareOf(t) == OrZero(task[t].predicted) + OrZero(task[t].predicted_transfer)
RECURSIVE SumShares(_)
SumShares(S) ==
    IF S = {} THEN 0
    ELSE LET t == CHOOSE x \in S : TRUE IN ShareOf(t) + SumShares(S \ {t})
\* the tasks queued in the FIFO of w, and those taken from it or notified to it
\* whose pre_exec_hook has not run
Waiting(w) == Range(FifoSeq(w)) \cup held[w]
Started(w) == IF running[w] = NULL THEN {} ELSE {running[w]}

\* the step charges a task to the FIFO of last'.w: a notification, or the
\* first critical section of a push that did not hand its task to a child context
Charges ==
    \/ last'.op = "push_horizon"
    \/ /\ last'.op \in CommitOps
       /\ last'.w \in Workers
       /\ pc.pushing[Charged] = NoPush
       /\ ~(last'.op \in DecideOps /\ task'[Decided].moved)
\* what the step adds to exp_len of the FIFO of worker w
LedgerDelta(w) ==
    IF w # last'.w THEN 0
    ELSE IF Charges
         THEN LET c == IF last'.op = "push_horizon" THEN last'.t ELSE Charged
              IN  OrZero(task'[c].predicted) + OrZero(task'[c].predicted_transfer)
    ELSE IF last'.op = "pre_exec" THEN -ShareOf(last'.t)
    ELSE 0

PendingMain == {u \in Tasks : task[u].sub /\ task[u].stamp = 0} \cup {last'.t}

\* C31: the task a dm_push_task dispatches is a pending task (no task is
\* dispatched twice) and no pending task has a greater heterogeneity ratio
C31_DispatchHighestRatioOnce ==
    [][last'.op = "dm_push" =>
          /\ Decided \in PendingMain
          /\ \A u \in PendingMain :
                 ~QGt(get_task_heter_ratio(u), get_task_heter_ratio(Decided))]_vars

\* C32: in a context with both ends of the priority range set, min = max
\* included, _normalize_prio is defined for every priority of the range and
\* yields an index of a bucket, in 0 .. num_priorities - 1
C32_NormalizedPrioInBounds ==
    [][last'.op \in {"normalize", "abort"} =>
          /\ last'.op = "normalize"
          /\ last'.ret \in 0 .. (dt.num_priorities - 1)]_vars

\* C33: the value a simulated push returns is the exp_end entry of a candidate
\* evaluated for the chosen worker: the row index best_in_ctx is the index of
\* a worker of the context, in the modelled case and on the greedy fallback
C33_SimulateReadsEvaluatedEntry ==
    [][last'.op \in SimulateOps =>
          \E d \in {DmdaDecision(last'.t, SortedDecisionOf(last'.op))} :
              /\ d.best_in_ctx # -1
              /\ <<d.best_in_ctx, d.impl>> \in DOMAIN d.m
              /\ last'.ret = d.m[<<d.best_in_ctx, d.impl>>].exp_end]_vars

\* a pop_first_ready hands out a task that is queued in the FIFO of its
\* worker and was not handed out before, and hands out none only when the
\* FIFO holds no task
PopReadyReturnsQueuedOnce ==
    last'.op = "pop_ready" =>
        IF FifoSeq(last'.w) = <<>> THEN last'.ret = NULL
        ELSE /\ last'.ret \in Range(FifoSeq(last'.w))
             /\ ~task[last'.ret].popped
             /\ last'.ret \notin Range(TaskSeq(task', queue_array'[last'.w]))

\* C34: once pushes have ceased and the worker keeps calling pop_first_ready,
\* every task queued in its FIFO is returned, exactly once, and the FIFO ends
\* with an empty sequence and ntasks = 0; pop_first_ready never returns none
\* while the sequence is not empty
C34_PopReadyDrains ==
    /\ [][PopReadyReturnsQueuedOnce]_vars
    /\ \A w \in Workers :
           <>[](queue_array[w].head = NULL /\ queue_array[w].ntasks = 0)

\* a FIFO is empty again after pop_first_ready returned every task pushed
C34_Witness ==
    /\ last.op = "pop_ready"
    /\ last.ret # NULL
    /\ \A t \in Tasks : task[t].popped
    /\ \A w \in Workers : queue_array[w].head = NULL /\ queue_array[w].ntasks = 0

\* the state scenario S1 starts from: time 0, both FIFOs empty, and the push
\* of the task of size 1
StartsS1 ==
    /\ last'.op \in PushOps
    /\ TaskSize(last'.t) = 1
    /\ now = 0
    /\ \A w \in Workers :
           /\ queue_array[w].ntasks = 0
           /\ queue_array[w].exp_len = 0
           /\ queue_array[w].exp_start = 0
\* what DMDA computes for the pushed task: best_exp_end, the fitness of the
\* candidate of W0 and of W1 (on the scale of Fitness), and the worker chosen
ComputedS1 ==
    LET p == compute_all_performance_predictions(last'.t, SortedDecisionOf(last'.op))
    IN  <<p.best_exp_end, Fitness(p, <<0, 0>>), Fitness(p, <<1, 0>>), last'.w>>

\* C35 as amended: in scenario S1 the exp_end of a candidate does not include
\* the transfer: DMDA computes best_exp_end = min(100, 20) = 20, fitness 5 for
\* W1 and fitness 80 for W0, and selects W1
C35_ScenarioS1 ==
    [][StartsS1 => ComputedS1 = <<20, 80 * 1000000, 5 * 1000000, 1>>]_vars

\* C35 as stated: best_exp_end = 25, fitness 5 for W1 and 75 for W0, W1 selected
C35_ScenarioS1AsStated ==
    [][StartsS1 => ComputedS1 = <<25, 75 * 1000000, 5 * 1000000, 1>>]_vars

\* the task of scenario S1 is queued alone on W1, charged with its length and
\* its transfer, at time 0
C35_Witness ==
    /\ last.op \in PushOps
    /\ TaskSize(last.t) = 1
    /\ last.w = 1
    /\ now = 0
    /\ FifoSeq(1) = <<last.t>>
    /\ queue_array[1].exp_len = 25
    /\ queue_array[0].ntasks = 0

====
